---- MODULE Spec2Model ----
(***************************************************************************)
(* Fusion of a raw DOM tree with a raw accessibility (AX) node list        *)
(* (CombinedTreeProcessor.create_combined_tree) and the progressive AX     *)
(* walk of A11yService.get_accessibility_tree.                             *)
(*                                                                         *)
(* Python's Optional values are modelled as sequences: <<>> is None and    *)
(* <<v>> is the value v.  Objects of the Fused Tree live in a heap (a      *)
(* sequence of records); a reference to an object is its index.            *)
(***************************************************************************)
EXTENDS Integers, Sequences, FiniteSets, TLC

VARIABLES
    page,                \* the page in the browser, as a sequence of node profiles
    dom_tree,            \* input of create_combined_tree: GetDocumentReturns
    accessibility_tree,  \* input of create_combined_tree: GetFullAXTreeReturns
    response,            \* <<>> or <<r>>: the CombinedTreeResponse of the latest run on the inputs
    first_response,      \* <<>> or <<r>>: the CombinedTreeResponse of the first run on the inputs
    runs,                \* "none", "once" or "repeated": runs of create_combined_tree on the inputs
    interactive_counter, \* the interactive_counter dict of the most recent call
    ax_browser,          \* the AX tree held by the browser (what the protocol serves)
    ax_stack,            \* call stack of get_accessibility_tree / _get_interesting_nodes
    ax_pending,          \* <<>> or <<id>>: the getChildAXNodes request in flight
    ax_requests,         \* the ids getChildAXNodes was issued for, in order
    ax_examined,         \* the ids of the AX nodes whose ignored flag the walk has read
    ax_failures,         \* the ids whose getChildAXNodes call failed
    ax_returned,         \* <<>> or <<nodes>>: what get_accessibility_tree returned
    browser,             \* the Browser: its context, the url of the current page, the protocol targets
    svc,                 \* the call of the A11yService in progress: entry point, running method, position
    cdp_pending,         \* the protocol requests in flight, other than getChildAXNodes
    cdp_requests,        \* the protocol requests issued, other than getChildAXNodes, in order
    dom_browser,         \* the document held by the browser, as a sequence of node profiles
    dom_stack,           \* call stack of _collect_all_nodes
    doc_response,        \* <<>> or <<doc>>: the response of the first DOM.getDocument
    all_nodes,           \* the all_nodes dict of get_entire_dom_tree
    frame_documents,     \* the frame_documents list of get_entire_dom_tree
    frame_index,         \* the frame documents the loop of get_entire_dom_tree has taken
    dom_failures,        \* the DOM requests of the walk that failed
    dom_returned,        \* <<>> or <<doc>>: what get_entire_dom_tree returned
    allow_list,          \* the include_attributes of the latest serialize_accessible_elements call
    simplified_tree,     \* <<>> or <<tree>>: the result of its build pass
    optimized_tree,      \* <<>> or <<tree>>: the result of its optimize pass
    serialized           \* <<>> or <<str>>: the string it returned

fusion_vars == <<page, dom_tree, accessibility_tree, response, first_response, runs,
                 interactive_counter>>
walk_vars == <<ax_browser, ax_stack, ax_pending, ax_requests, ax_examined,
               ax_failures, ax_returned>>
service_vars == <<browser, svc, cdp_pending, cdp_requests>>
dom_vars == <<dom_browser, dom_stack, doc_response, all_nodes, frame_documents,
              frame_index, dom_failures, dom_returned>>
serializer_vars == <<allow_list, simplified_tree, optimized_tree, serialized>>
vars == <<page, dom_tree, accessibility_tree, response, first_response, runs,
          interactive_counter, ax_browser, ax_stack, ax_pending,
          ax_requests, ax_examined, ax_failures, ax_returned,
          browser, svc, cdp_pending, cdp_requests,
          dom_browser, dom_stack, doc_response, all_nodes, frame_documents,
          frame_index, dom_failures, dom_returned,
          allow_list, simplified_tree, optimized_tree, serialized>>

(***************************************************************************)
(* Bounds of the model.                                                    *)
(***************************************************************************)
MaxNodes == 4      \* DOM nodes of an enumerated DOM tree
MaxAxNodes == 5    \* AX nodes of the browser's AX tree
MaxFailures == 2   \* failing requests of one walk
MaxDomNodes == 4   \* nodes of a document the browser builds node by node

(***************************************************************************)
(* views.NodeType                                                          *)
(***************************************************************************)
ELEMENT_NODE == 1
TEXT_NODE == 3
DOCUMENT_NODE == 9
DOCUMENT_FRAGMENT_NODE == 11

SeqToSet(s) == {s[i] : i \in 1..Len(s)}

(***************************************************************************)
(* Raw inputs.  A DOM node is a record in the shape of cdp Node; children  *)
(* and shadowRoots hold the nodeIds of the nodes they contain, and         *)
(* dom_tree.nodes[nodeId] is the node.  An absent list is the empty one.   *)
(***************************************************************************)
DomKinds == {"div", "span", "button", "#text", "head", "#document-fragment", "#document"}

NodeTypeOf(kind) ==
    CASE kind = "#text" -> TEXT_NODE
      [] kind = "#document-fragment" -> DOCUMENT_FRAGMENT_NODE
      [] kind = "#document" -> DOCUMENT_NODE
      [] OTHER -> ELEMENT_NODE

NodeNameOf(kind) ==
    CASE kind = "div" -> "DIV"
      [] kind = "span" -> "SPAN"
      [] kind = "button" -> "BUTTON"
      [] kind = "head" -> "HEAD"
      [] OTHER -> kind

LocalNameOf(kind) ==
    IF kind \in {"#text", "#document-fragment", "#document"} THEN "" ELSE kind

\* A profile is what the page holds for one node: its parent (0 for the root),
\* the kind of DOM node, the AX node the browser computed for it ("none" when
\* there is none), the text of a text node and its flat attribute list.
Profile(parent, kind, ax, value, attrs) ==
    [parent |-> parent, kind |-> kind, ax |-> ax, value |-> value, attrs |-> attrs]

RECURSIVE IdsWhere(_, _, _, _)
IdsWhere(p, parent, shadow, i) ==
    IF i > Len(p) THEN <<>>
    ELSE (IF p[i].parent = parent /\ ((p[i].kind = "#document-fragment") = shadow)
          THEN <<i>> ELSE <<>>) \o IdsWhere(p, parent, shadow, i + 1)

BackendIdOf(p, i) == Len(p) + i

DomNodeOf(p, i) ==
    [nodeId |-> i,
     backendNodeId |-> BackendIdOf(p, i),
     nodeType |-> NodeTypeOf(p[i].kind),
     nodeName |-> NodeNameOf(p[i].kind),
     localName |-> LocalNameOf(p[i].kind),
     nodeValue |-> p[i].value,
     attributes |-> p[i].attrs,
     children |-> IdsWhere(p, i, FALSE, 1),
     shadowRoots |-> IdsWhere(p, i, TRUE, 1)]

DomTreeOf(p) == [root |-> 1, nodes |-> [i \in 1..Len(p) |-> DomNodeOf(p, i)]]

AXNodeOf(p, i) ==
    [nodeId |-> i,
     ignored |-> p[i].ax = "ignored",
     backendDOMNodeId |-> BackendIdOf(p, i),
     role |-> IF p[i].ax = "focusable" THEN "button" ELSE "generic",
     properties |-> IF p[i].ax = "ignored" THEN <<>>
                    ELSE <<[name |-> "focusable", value |-> p[i].ax = "focusable"]>>]

RECURSIVE AXNodesFrom(_, _)
AXNodesFrom(p, i) ==
    IF i > Len(p) THEN <<>>
    ELSE (IF p[i].ax = "none" THEN <<>> ELSE <<AXNodeOf(p, i)>>)
         \o AXNodesFrom(p, i + 1)

AXTreeOf(p) == [nodes |-> AXNodesFrom(p, 1)]

(***************************************************************************)
(* CombinedTreeProcessor                                                   *)
(***************************************************************************)
\* str.lower() on the node names that occur
Lower(s) ==
    CASE s = "DIV" -> "div"
      [] s = "SPAN" -> "span"
      [] s = "HEAD" -> "head"
      [] s = "IFRAME" -> "iframe"
      [] s = "BUTTON" -> "button"
      [] OTHER -> s

document_level_nodes ==
    {"#document", "#document-fragment", "html", "head", "body", "title",
     "meta", "link", "style", "script", "noscript"}

\* Mutant: only the document nodes are recognised, by node name.
should_ignore_only_document_nodes(dom_node) ==
    Lower(dom_node.nodeName) \in {"#document", "#document-fragment"}

should_ignore_accessibility_for_node(dom_node) ==
    LET node_name == Lower(dom_node.nodeName)
        tag_name == Lower(dom_node.localName)
    IN node_name \in document_level_nodes \/ tag_name \in document_level_nodes

\* Mutant: the ignored flag of an AX node is not looked at.
RECURSIVE IndexAXNodesIgnoredToo(_, _)
IndexAXNodesIgnoredToo(nodes, map) ==
    IF nodes = <<>> THEN map
    ELSE LET ax_node == Head(nodes)
             key == ax_node.backendDOMNodeId
         IN IF key # 0
            THEN IndexAXNodesIgnoredToo(Tail(nodes),
                     [k \in DOMAIN map \cup {key} |-> IF k = key THEN ax_node ELSE map[k]])
            ELSE IndexAXNodesIgnoredToo(Tail(nodes), map)

\* Step 1: the dict ax_by_backend_id; a later node with the same key replaces
\* the earlier one.  A missing backendDOMNodeId is 0.
RECURSIVE IndexAXNodes(_, _)
IndexAXNodes(nodes, map) ==
    IF nodes = <<>> THEN map
    ELSE LET ax_node == Head(nodes)
             key == ax_node.backendDOMNodeId
         IN IF ~ax_node.ignored /\ key # 0
            THEN IndexAXNodes(Tail(nodes),
                     [k \in DOMAIN map \cup {key} |-> IF k = key THEN ax_node ELSE map[k]])
            ELSE IndexAXNodes(Tail(nodes), map)

ax_by_backend_id(ax_tree) == IndexAXNodes(ax_tree.nodes, <<>>)

\* dict.get
DictGet(map, key) == IF key \in DOMAIN map THEN <<map[key]>> ELSE <<>>

is_interactive_node(accessibility_data) ==
    \E i \in 1..Len(accessibility_data.properties) :
        /\ accessibility_data.properties[i].name = "focusable"
        /\ accessibility_data.properties[i].value = TRUE

\* A dict is a sequence of <<key, value>> pairs with unique keys, in insertion order.
DictSet(dict, key, value) ==
    IF \E i \in 1..Len(dict) : dict[i][1] = key
    THEN [i \in 1..Len(dict) |-> IF dict[i][1] = key THEN <<key, value>> ELSE dict[i]]
    ELSE Append(dict, <<key, value>>)

RECURSIVE ParsePairs(_, _, _)
ParsePairs(attrs, i, dict) ==
    IF i > Len(attrs) THEN dict
    ELSE IF i + 1 <= Len(attrs)
         THEN ParsePairs(attrs, i + 2, DictSet(dict, attrs[i], attrs[i + 1]))
         ELSE ParsePairs(attrs, i + 2, dict)

parse_dom_attributes(dom_node) == ParsePairs(dom_node.attributes, 1, <<>>)

TagNameOf(dom_node) ==
    IF dom_node.localName # "" THEN dom_node.localName ELSE Lower(dom_node.nodeName)

\* The container node built for a DOM node without accessibility data
ContainerNode(dom_node, accessible_children) ==
    [cls |-> "CombinedElementNode",
     node_id |-> dom_node.nodeId,
     backend_node_id |-> dom_node.backendNodeId,
     node_type |-> dom_node.nodeType,
     node_name |-> dom_node.nodeName,
     node_value |-> dom_node.nodeValue,
     tag_name |-> TagNameOf(dom_node),
     attributes |-> parse_dom_attributes(dom_node),
     accessibility |-> <<>>,
     interactive_index |-> <<>>,
     is_in_viewport |-> FALSE,
     shadow_root |-> FALSE,
     children |-> accessible_children,
     parent |-> <<>>,
     is_new |-> FALSE]

CombinedTextNode(dom_node, accessibility_data) ==
    [cls |-> "CombinedTextNode",
     node_id |-> dom_node.nodeId,
     backend_node_id |-> dom_node.backendNodeId,
     node_type |-> dom_node.nodeType,
     node_name |-> dom_node.nodeName,
     node_value |-> dom_node.nodeValue,
     text |-> dom_node.nodeValue,
     accessibility |-> <<accessibility_data>>,
     children |-> <<>>,
     parent |-> <<>>,
     is_new |-> FALSE]

CombinedElementNode(dom_node, accessibility_data, interactive_index) ==
    [cls |-> "CombinedElementNode",
     node_id |-> dom_node.nodeId,
     backend_node_id |-> dom_node.backendNodeId,
     node_type |-> dom_node.nodeType,
     node_name |-> dom_node.nodeName,
     node_value |-> dom_node.nodeValue,
     tag_name |-> TagNameOf(dom_node),
     attributes |-> parse_dom_attributes(dom_node),
     accessibility |-> <<accessibility_data>>,
     interactive_index |-> interactive_index,
     is_in_viewport |-> TRUE,
     shadow_root |-> dom_node.shadowRoots # <<>>,
     children |-> <<>>,
     parent |-> <<>>,
     is_new |-> FALSE]

PlaceholderNode(dom_node) ==
    [cls |-> "CombinedElementNode",
     node_id |-> dom_node.nodeId,
     backend_node_id |-> dom_node.backendNodeId,
     node_type |-> dom_node.nodeType,
     node_name |-> dom_node.nodeName,
     node_value |-> dom_node.nodeValue,
     tag_name |-> TagNameOf(dom_node),
     attributes |-> <<>>,
     accessibility |-> <<>>,
     interactive_index |-> <<>>,
     is_in_viewport |-> FALSE,
     shadow_root |-> FALSE,
     children |-> <<>>,
     parent |-> <<>>,
     is_new |-> FALSE]

\* Mutant: the parent references are not set.
ParentReferencesUnset(heap, accessible_children, node) == heap

\* for child in accessible_children: child.parent = node
SetParentReferences(heap, accessible_children, node) ==
    [r \in 1..Len(heap) |->
        IF r \in SeqToSet(accessible_children)
        THEN [heap[r] EXCEPT !.parent = <<node>>] ELSE heap[r]]

\* Mutant: the interactive counter outlives the call.
NewRunSharedCounter ==
    [heap |-> <<>>,
     stats |-> [total_nodes |-> 0, accessible_nodes |-> 0, interactive_nodes |-> 0],
     interactive_counter |-> interactive_counter]

\* The locals of one call: the stats dict, the interactive_counter dict and the
\* objects the call has created so far.
NewRun ==
    [heap |-> <<>>,
     stats |-> [total_nodes |-> 0, accessible_nodes |-> 0, interactive_nodes |-> 0],
     interactive_counter |-> [value |-> 0]]

CountVisited(st) == [st EXCEPT !.stats.total_nodes = @ + 1]

CountAccessible(st) == [st EXCEPT !.stats.accessible_nodes = @ + 1]

\* The accessibility data a DOM node is converted with
AccessibilityDataFor(ax_map, dom_node) ==
    IF should_ignore_accessibility_for_node(dom_node) THEN <<>>
    ELSE DictGet(ax_map, dom_node.backendNodeId)

\* Mutant: a node without accessible children becomes an empty container.
ContainerUnlessOneChild(dom_node, collected) ==
    LET accessible_children == collected.accessible_children
        st == collected.st
        container_node == Len(st.heap) + 1
    IN IF Len(accessible_children) = 1
       THEN [node |-> <<accessible_children[1]>>, st |-> st]
       ELSE [node |-> <<container_node>>,
             st |-> [st EXCEPT !.heap =
                       SetParentReferences(
                           Append(st.heap, ContainerNode(dom_node, accessible_children)),
                           accessible_children, container_node)]]

\* Mutant: a single accessible child is wrapped in a container too.
ContainerForEveryChild(dom_node, collected) ==
    LET accessible_children == collected.accessible_children
        st == collected.st
        container_node == Len(st.heap) + 1
    IN IF accessible_children = <<>> THEN [node |-> <<>>, st |-> st]
       ELSE [node |-> <<container_node>>,
             st |-> [st EXCEPT !.heap =
                       SetParentReferences(
                           Append(st.heap, ContainerNode(dom_node, accessible_children)),
                           accessible_children, container_node)]]

\* The branch of convert_dom_node for a node without accessibility data, given
\* what collect_accessible_children returned
ContainerOrChild(dom_node, collected) ==
    LET accessible_children == collected.accessible_children
        st == collected.st
        container_node == Len(st.heap) + 1
    IN IF accessible_children = <<>> THEN [node |-> <<>>, st |-> st]
       ELSE IF Len(accessible_children) = 1
            THEN [node |-> <<accessible_children[1]>>, st |-> st]
            ELSE [node |-> <<container_node>>,
                  st |-> [st EXCEPT !.heap =
                            SetParentReferences(
                                Append(st.heap, ContainerNode(dom_node, accessible_children)),
                                accessible_children, container_node)]]

\* The interactive index a node with accessibility data gets, and the counters after
AssignInteractiveIndex(accessibility_data, st) ==
    IF is_interactive_node(accessibility_data)
    THEN [interactive_index |-> <<st.interactive_counter.value>>,
          st |-> [st EXCEPT !.interactive_counter.value = @ + 1,
                            !.stats.interactive_nodes = @ + 1]]
    ELSE [interactive_index |-> <<>>, st |-> st]

RECURSIVE convert_dom_node(_, _, _, _)
RECURSIVE CollectOver(_, _, _, _)

\* for child in ...: result = convert_dom_node(child); if result: append
CollectOver(dom, ax_map, ids, acc) ==
    IF ids = <<>> THEN acc
    ELSE LET result == convert_dom_node(dom, ax_map, Head(ids), acc.st)
         IN CollectOver(dom, ax_map, Tail(ids),
                [accessible_children |-> acc.accessible_children \o result.node,
                 st |-> result.st])

\* Mutant: the shadow roots are not processed.
collect_direct_children_only(dom, ax_map, dom_node, st) ==
    CollectOver(dom, ax_map, dom_node.children,
                [accessible_children |-> <<>>, st |-> st])

\* Mutant: the shadow roots are processed before the direct children.
collect_shadow_roots_first(dom, ax_map, dom_node, st) ==
    LET shadow == CollectOver(dom, ax_map, dom_node.shadowRoots,
                              [accessible_children |-> <<>>, st |-> st])
    IN CollectOver(dom, ax_map, dom_node.children, shadow)

collect_accessible_children(dom, ax_map, dom_node, st) ==
    LET direct == CollectOver(dom, ax_map, dom_node.children,
                              [accessible_children |-> <<>>, st |-> st])
    IN CollectOver(dom, ax_map, dom_node.shadowRoots, direct)

\* The branch of convert_dom_node for a node with accessibility data
AccessibleNode(dom, ax_map, dom_node, accessibility_data, st) ==
    LET assigned == AssignInteractiveIndex(accessibility_data, CountAccessible(st))
        created == IF dom_node.nodeType = TEXT_NODE
                   THEN CombinedTextNode(dom_node, accessibility_data)
                   ELSE CombinedElementNode(dom_node, accessibility_data,
                                            assigned.interactive_index)
        node == Len(assigned.st.heap) + 1
        collected == collect_accessible_children(dom, ax_map, dom_node,
                         [assigned.st EXCEPT !.heap = Append(@, created)])
        accessible_children == collected.accessible_children
    IN [node |-> <<node>>,
        st |-> [collected.st EXCEPT !.heap =
                  SetParentReferences(
                      [@ EXCEPT ![node].children = accessible_children],
                      accessible_children, node)]]

convert_dom_node(dom, ax_map, id, st) ==
    LET dom_node == dom.nodes[id]
        visited == CountVisited(st)
        accessibility_data == AccessibilityDataFor(ax_map, dom_node)
    IN IF accessibility_data = <<>>
       THEN ContainerOrChild(dom_node,
                collect_accessible_children(dom, ax_map, dom_node, visited))
       ELSE AccessibleNode(dom, ax_map, dom_node, accessibility_data[1], visited)

\* If no root node, create a placeholder
RootOrPlaceholder(dom, converted) ==
    IF converted.node = <<>>
    THEN [node |-> <<Len(converted.st.heap) + 1>>,
          st |-> [converted.st EXCEPT !.heap =
                    Append(@, PlaceholderNode(dom.nodes[dom.root]))]]
    ELSE converted

\* One call of create_combined_tree: the root reference and the final locals
RunFusion(ax_tree, dom) ==
    RootOrPlaceholder(dom,
        convert_dom_node(dom, ax_by_backend_id(ax_tree), dom.root, NewRun))

\* The CombinedTreeResponse; heap holds the objects root refers to.
CombinedTreeResponse(run) ==
    [root |-> run.node[1],
     heap |-> run.st.heap,
     total_nodes |-> run.st.stats.total_nodes,
     accessible_nodes |-> run.st.stats.accessible_nodes,
     interactive_nodes |-> run.st.stats.interactive_nodes]

create_combined_tree(ax_tree, dom) == CombinedTreeResponse(RunFusion(ax_tree, dom))

(***************************************************************************)
(* The pages the fusion is run on.  A page grows node by node, in document *)
(* order, up to MaxNodes nodes, each node with one of the templates below; *)
(* text nodes are leaves and a shadow root is a #document-fragment hosted  *)
(* by an element.  The page of the round-trip scenario and a page whose AX  *)
(* nodes are all ignored are pages too.                                    *)
(***************************************************************************)
Templates ==
    {[kind |-> "div", ax |-> "none", value |-> "", attrs |-> <<>>],
     [kind |-> "div", ax |-> "plain", value |-> "", attrs |-> <<"id", "x", "hidden">>],
     [kind |-> "div", ax |-> "focusable", value |-> "", attrs |-> <<>>],
     [kind |-> "#text", ax |-> "focusable", value |-> "Hi", attrs |-> <<>>],
     [kind |-> "head", ax |-> "focusable", value |-> "", attrs |-> <<>>],
     [kind |-> "#document-fragment", ax |-> "none", value |-> "", attrs |-> <<>>]}

RECURSIVE AncestorsOrSelf(_, _)
AncestorsOrSelf(p, i) ==
    IF i = 0 THEN {} ELSE {i} \cup AncestorsOrSelf(p, p[i].parent)

\* the nodes under which the next node in document order may be put
HostsFor(p, t) ==
    {h \in AncestorsOrSelf(p, Len(p)) :
        /\ p[h].kind # "#text"
        /\ t.kind = "#document-fragment" => p[h].kind \in {"div", "span", "head"}}

RootTemplates == {t \in Templates : t.kind \in {"div", "head"}}

\* div > (span#a "Hello", span#b "World"); only span#a has an AX node
\* (role button, focusable)
ScenarioPage ==
    <<Profile(0, "div", "none", "", <<>>),
      Profile(1, "span", "focusable", "", <<"id", "a">>),
      Profile(2, "#text", "none", "Hello", <<>>),
      Profile(1, "span", "none", "", <<"id", "b">>),
      Profile(4, "#text", "none", "World", <<>>)>>

\* div > (div, span); the AX nodes of the three are ignored
IgnoredPage ==
    <<Profile(0, "div", "ignored", "", <<>>),
      Profile(1, "div", "ignored", "", <<>>),
      Profile(1, "span", "ignored", "", <<>>)>>

InitFusion ==
    /\ page \in {<<Profile(0, t.kind, t.ax, t.value, t.attrs)>> : t \in RootTemplates}
                   \cup {ScenarioPage, IgnoredPage}
    /\ dom_tree = DomTreeOf(page)
    /\ accessibility_tree = AXTreeOf(page)
    /\ response = <<>>
    /\ first_response = <<>>
    /\ runs = "none"
    /\ interactive_counter = [value |-> 0]

\* No call of the service is made.
IdleService ==
    /\ browser = [browser_context |-> TRUE, url |-> "a", targets |-> <<>>]
    /\ svc = [entry |-> "none", fn |-> "none", step |-> 0, phase |-> "idle",
              session_id |-> <<>>]
    /\ cdp_pending = <<>>
    /\ cdp_requests = <<>>

IdleDom ==
    /\ dom_browser = <<>>
    /\ dom_stack = <<>>
    /\ doc_response = <<>>
    /\ all_nodes = <<>>
    /\ frame_documents = <<>>
    /\ frame_index = 0
    /\ dom_failures = <<>>
    /\ dom_returned = <<>>

\* serialize_accessible_elements is not called.
IdleSerializer ==
    /\ allow_list = <<>>
    /\ simplified_tree = <<>>
    /\ optimized_tree = <<>>
    /\ serialized = <<>>

IdleWalk ==
    /\ ax_browser = <<>>
    /\ ax_stack = <<>>
    /\ ax_pending = <<>>
    /\ ax_requests = <<>>
    /\ ax_examined = {}
    /\ ax_failures = {}
    /\ ax_returned = <<>>

\* The page gets one more node before the trees are fused.
LoadNode ==
    /\ runs = "none"
    /\ Len(page) < MaxNodes
    /\ \E t \in Templates : \E h \in HostsFor(page, t) :
          page' = Append(page, Profile(h, t.kind, t.ax, t.value, t.attrs))
    /\ dom_tree' = DomTreeOf(page')
    /\ accessibility_tree' = AXTreeOf(page')
    /\ UNCHANGED <<response, first_response, runs, interactive_counter>>
    /\ UNCHANGED <<walk_vars, service_vars, dom_vars>>
    /\ UNCHANGED serializer_vars

\* A caller runs create_combined_tree(accessibility_tree, dom_tree).
CreateCombinedTree ==
    /\ LET run == RunFusion(accessibility_tree, dom_tree)
       IN /\ response' = <<CombinedTreeResponse(run)>>
          /\ first_response' = IF runs = "none" THEN <<CombinedTreeResponse(run)>>
                               ELSE first_response
          /\ interactive_counter' = run.st.interactive_counter
    /\ runs' = IF runs = "none" THEN "once" ELSE "repeated"
    /\ UNCHANGED <<page, dom_tree, accessibility_tree>>
    /\ UNCHANGED <<walk_vars, service_vars, dom_vars>>
    /\ UNCHANGED serializer_vars

\* Between two runs on the same inputs another caller runs
\* create_combined_tree on other inputs (the scenario page); its response goes
\* to that caller.
CreateCombinedTreeOther ==
    /\ runs = "once"
    /\ LET run == RunFusion(AXTreeOf(ScenarioPage), DomTreeOf(ScenarioPage))
       IN interactive_counter' = run.st.interactive_counter
    /\ UNCHANGED <<page, dom_tree, accessibility_tree, response, first_response, runs>>
    /\ UNCHANGED <<walk_vars, service_vars, dom_vars>>
    /\ UNCHANGED serializer_vars

Init == InitFusion /\ IdleWalk /\ IdleService /\ IdleDom /\ IdleSerializer

Next == LoadNode \/ CreateCombinedTree \/ CreateCombinedTreeOther

Spec == Init /\ [][Next]_vars

(***************************************************************************)
(* A11yService.  A call of get_accessibility_tree or get_entire_dom_tree   *)
(* resolves the session of the current page and awaits a fixed list of     *)
(* requests before its walk; svc.step is the position in that list.  An    *)
(* exception that leaves the entry point ends the call in phase "raised".  *)
(***************************************************************************)
Script(fn) ==
    IF fn = "get_accessibility_tree"
    THEN <<"Target.getTargets", "Target.attachToTarget", "Accessibility.enable",
           "DOM.enable", "Accessibility.getRootAXNode">>
    ELSE <<"Target.getTargets", "Target.attachToTarget", "DOM.enable",
           "Runtime.enable", "DOM.getDocument">>

Target(type, url, targetId) == [type |-> type, url |-> url, targetId |-> targetId]

\* the browsers a call may meet: without a context, without a target, with
\* targets of which none is the page, and with the page as the second of two
\* page targets
Browsers ==
    {[browser_context |-> FALSE, url |-> "a", targets |-> <<Target("page", "a", 1)>>],
     [browser_context |-> TRUE, url |-> "a", targets |-> <<>>],
     [browser_context |-> TRUE, url |-> "a",
      targets |-> <<Target("worker", "a", 1), Target("page", "b", 2)>>],
     [browser_context |-> TRUE, url |-> "a",
      targets |-> <<Target("page", "b", 1), Target("page", "a", 2)>>]}

\* the loop of _playwright_page_to_session_id over targets['targetInfos']:
\* the page targets with the url of the page, in order
MatchingTargets ==
    SelectSeq(browser.targets, LAMBDA target : target.type = "page" /\ target.url = browser.url)

\* what the browser answers to Target.attachToTarget
SessionOf(targetId) == 10 + targetId

Request(method, id) == [method |-> method, id |-> id]

CallStarted == svc.phase # "idle"

InitService(entry) ==
    /\ browser \in Browsers
    /\ svc = [entry |-> entry, fn |-> "none", step |-> 0, phase |-> "idle",
              session_id |-> <<>>]
    /\ cdp_pending = <<>>
    /\ cdp_requests = <<>>

\* The caller calls the entry point; get_combined_tree starts with
\* get_accessibility_tree.
CallService ==
    /\ svc.phase = "idle"
    /\ svc.entry # "none"
    /\ svc' = [svc EXCEPT !.phase = "start",
                          !.fn = IF svc.entry = "get_entire_dom_tree"
                                 THEN "get_entire_dom_tree"
                                 ELSE "get_accessibility_tree"]
    /\ UNCHANGED <<browser, cdp_pending, cdp_requests>>
    /\ UNCHANGED <<fusion_vars, walk_vars, dom_vars>>
    /\ UNCHANGED serializer_vars

\* The method takes the current page and raises ValueError without a browser
\* context; otherwise _playwright_page_to_session_id is next.
GetCurrentPage ==
    /\ svc.phase = "start"
    /\ svc' = IF browser.browser_context
              THEN [svc EXCEPT !.phase = "send", !.step = 1]
              ELSE [svc EXCEPT !.phase = "raised"]
    /\ UNCHANGED <<browser, cdp_pending, cdp_requests>>
    /\ UNCHANGED <<fusion_vars, walk_vars, dom_vars>>
    /\ UNCHANGED serializer_vars

\* The next request of the list is issued: attachToTarget names the target.
SendRequest ==
    /\ svc.phase = "send"
    /\ LET method == Script(svc.fn)[svc.step]
           request == Request(method, IF method = "Target.attachToTarget"
                                      THEN Head(MatchingTargets).targetId ELSE 0)
       IN /\ cdp_pending' = Append(cdp_pending, request)
          /\ cdp_requests' = Append(cdp_requests, request)
    /\ svc' = [svc EXCEPT !.phase = "await"]
    /\ UNCHANGED browser
    /\ UNCHANGED <<fusion_vars, walk_vars, dom_vars>>
    /\ UNCHANGED serializer_vars

\* Mutant: without a matching target the method goes on without a session.
ReceiveResponseWithoutTarget ==
    /\ svc.phase = "await"
    /\ svc.step < 5
    /\ cdp_pending # <<>>
    /\ cdp_pending' = Tail(cdp_pending)
    /\ svc' = CASE svc.step = 1 /\ MatchingTargets = <<>> ->
                      [svc EXCEPT !.phase = "send", !.step = 3]
                 [] svc.step = 2 ->
                      [svc EXCEPT !.phase = "send", !.step = 3,
                                  !.session_id = <<SessionOf(Head(cdp_pending).id)>>]
                 [] OTHER ->
                      [svc EXCEPT !.phase = "send", !.step = @ + 1]
    /\ UNCHANGED <<browser, cdp_requests>>
    /\ UNCHANGED <<fusion_vars, walk_vars, dom_vars>>
    /\ UNCHANGED serializer_vars

\* The response to one of the first four requests arrives.  After getTargets
\* the first matching page target is attached to, and ValueError is raised
\* when there is none; the response of attachToTarget holds the session id.
ReceiveResponse ==
    /\ svc.phase = "await"
    /\ svc.step < 5
    /\ cdp_pending # <<>>
    /\ cdp_pending' = Tail(cdp_pending)
    /\ svc' = CASE svc.step = 1 /\ MatchingTargets = <<>> ->
                      [svc EXCEPT !.phase = "raised"]
                 [] svc.step = 2 ->
                      [svc EXCEPT !.phase = "send", !.step = 3,
                                  !.session_id = <<SessionOf(Head(cdp_pending).id)>>]
                 [] OTHER ->
                      [svc EXCEPT !.phase = "send", !.step = @ + 1]
    /\ UNCHANGED <<browser, cdp_requests>>
    /\ UNCHANGED <<fusion_vars, walk_vars, dom_vars>>
    /\ UNCHANGED serializer_vars

\* One of the five requests fails: no handler of the method swallows the
\* exception (get_entire_dom_tree logs it and raises it again).
FailRequest ==
    /\ svc.phase = "await"
    /\ cdp_pending # <<>>
    /\ cdp_pending' = Tail(cdp_pending)
    /\ svc' = [svc EXCEPT !.phase = "raised"]
    /\ UNCHANGED <<browser, cdp_requests>>
    /\ UNCHANGED <<fusion_vars, walk_vars, dom_vars>>
    /\ UNCHANGED serializer_vars

(***************************************************************************)
(* A11yService.get_accessibility_tree: the progressive walk of the AX tree *)
(* the browser holds.  ax_browser[id] is the AX node with nodeId id; the   *)
(* root is node 1.  Each frame of ax_stack is one activation: node_id is   *)
(* its argument (0 for get_accessibility_tree), nodes the response nodes   *)
(* still to iterate, child_ids the childIds of the current node still to   *)
(* recurse into, result the list collected so far.                         *)
(***************************************************************************)
IdleFusion ==
    /\ page = <<>>
    /\ dom_tree = <<>>
    /\ accessibility_tree = <<>>
    /\ response = <<>>
    /\ first_response = <<>>
    /\ runs = "none"
    /\ interactive_counter = [value |-> 0]

RECURSIVE AXAncestorsOrSelf(_, _)
AXAncestorsOrSelf(tree, id) ==
    IF id = 0 THEN {} ELSE {id} \cup AXAncestorsOrSelf(tree, tree[id].parentId)

\* the backendNodeId of the node of the browser's document with that nodeId
DocBackendIdOf(i) == 20 + i

\* The AX node the browser holds under that id: an AX node that is not ignored
\* is a focusable button.
BrowserAXNode(id, ignored, parentId) ==
    [nodeId |-> id, ignored |-> ignored, parentId |-> parentId, childIds |-> <<>>,
     backendDOMNodeId |-> DocBackendIdOf(id),
     role |-> IF ignored THEN "none" ELSE "button",
     properties |-> IF ignored THEN <<>>
                    ELSE <<[name |-> "focusable", value |-> TRUE]>>]

InitWalk ==
    /\ ax_browser \in {<<>>} \cup {<<BrowserAXNode(1, g, 0)>> : g \in BOOLEAN}
    /\ ax_stack = <<>>
    /\ ax_pending = <<>>
    /\ ax_requests = <<>>
    /\ ax_examined = {}
    /\ ax_failures = {}
    /\ ax_returned = <<>>

\* The browser computes one more AX node, before the walk starts.
BrowserAddAXNode ==
    /\ ~CallStarted
    /\ ax_browser # <<>>
    /\ Len(ax_browser) < MaxAxNodes
    /\ \E g \in BOOLEAN : \E h \in AXAncestorsOrSelf(ax_browser, Len(ax_browser)) :
          LET id == Len(ax_browser) + 1
          IN ax_browser' =
                Append([ax_browser EXCEPT ![h].childIds = Append(@, id)],
                       BrowserAXNode(id, g, h))
    /\ UNCHANGED <<ax_stack, ax_pending, ax_requests, ax_examined, ax_failures, ax_returned>>
    /\ UNCHANGED <<fusion_vars, service_vars, dom_vars>>
    /\ UNCHANGED serializer_vars

\* What the protocol returns for Accessibility.getChildAXNodes(id): the child
\* nodes of the AX node with that id.
getChildAXNodes(id) ==
    [i \in 1..Len(ax_browser[id].childIds) |-> ax_browser[ax_browser[id].childIds[i]]]

Frame(fn, node_id, pc, nodes, child_ids, result) ==
    [fn |-> fn, node_id |-> node_id, pc |-> pc, nodes |-> nodes,
     child_ids |-> child_ids, result |-> result]

Top == ax_stack[Len(ax_stack)]

ReplaceTop(frame) == [ax_stack EXCEPT ![Len(ax_stack)] = frame]

\* The top activation returns result to its caller, which extends its list with
\* it; get_accessibility_tree returns {'nodes': result}.
ReturnFromTop(result) ==
    IF Len(ax_stack) = 1
    THEN /\ ax_stack' = <<>>
         /\ ax_returned' = <<result>>
    ELSE /\ ax_stack' = [SubSeq(ax_stack, 1, Len(ax_stack) - 1)
                            EXCEPT ![Len(ax_stack) - 1].result = @ \o result]
         /\ UNCHANGED ax_returned

\* The response to getRootAXNode arrives, and get_accessibility_tree runs up
\* to its loop over the root's childIds: without a root node it returns no
\* nodes; the root is kept if it is not ignored.
GetAccessibilityTree ==
    /\ svc.fn = "get_accessibility_tree"
    /\ svc.phase = "await"
    /\ svc.step = 5
    /\ cdp_pending # <<>>
    /\ cdp_pending' = Tail(cdp_pending)
    /\ svc' = [svc EXCEPT !.phase = "walk"]
    /\ IF ax_browser = <<>>
       THEN /\ ax_returned' = << <<>> >>
            /\ UNCHANGED <<ax_stack, ax_examined>>
       ELSE LET root_node == ax_browser[1]
            IN /\ ax_stack' = <<Frame("get_accessibility_tree", 0, "loop", <<>>,
                                      root_node.childIds,
                                      IF ~root_node.ignored THEN <<root_node>> ELSE <<>>)>>
               /\ ax_examined' = ax_examined \cup {root_node.nodeId}
               /\ UNCHANGED ax_returned
    /\ UNCHANGED <<ax_browser, ax_pending, ax_requests, ax_failures>>
    /\ UNCHANGED <<browser, cdp_requests>>
    /\ UNCHANGED <<fusion_vars, dom_vars>>
    /\ UNCHANGED serializer_vars

\* child_nodes = await self._get_interesting_nodes(session_id, child_id)
CallGetInterestingNodes ==
    /\ ax_stack # <<>>
    /\ Top.pc = "loop"
    /\ Top.child_ids # <<>>
    /\ ax_stack' = Append(ReplaceTop([Top EXCEPT !.child_ids = Tail(@)]),
                          Frame("_get_interesting_nodes", Head(Top.child_ids),
                                "request", <<>>, <<>>, <<>>))
    /\ UNCHANGED <<ax_browser, ax_pending, ax_requests, ax_examined, ax_failures, ax_returned>>
    /\ UNCHANGED <<fusion_vars, service_vars, dom_vars>>
    /\ UNCHANGED serializer_vars

\* _get_interesting_nodes issues Accessibility.getChildAXNodes for its node_id.
SendGetChildAXNodes ==
    /\ ax_stack # <<>>
    /\ Top.pc = "request"
    /\ ax_pending' = Append(ax_pending, Top.node_id)
    /\ ax_requests' = Append(ax_requests, Top.node_id)
    /\ ax_stack' = ReplaceTop([Top EXCEPT !.pc = "await"])
    /\ UNCHANGED <<ax_browser, ax_examined, ax_failures, ax_returned>>
    /\ UNCHANGED <<fusion_vars, service_vars, dom_vars>>
    /\ UNCHANGED serializer_vars

\* The response arrives: the loop over child_response['nodes'] starts.
ReceiveChildAXNodes ==
    /\ ax_stack # <<>>
    /\ Top.pc = "await"
    /\ ax_pending' = Tail(ax_pending)
    /\ ax_stack' = ReplaceTop([Top EXCEPT !.pc = "loop",
                                          !.nodes = getChildAXNodes(Top.node_id)])
    /\ UNCHANGED <<ax_browser, ax_requests, ax_examined, ax_failures, ax_returned>>
    /\ UNCHANGED <<fusion_vars, service_vars, dom_vars>>
    /\ UNCHANGED serializer_vars

\* Mutant: the exception is caught around the whole walk, which ends
\* without nodes.
FailGetChildAXNodesEndsWalk ==
    /\ ax_stack # <<>>
    /\ Top.pc = "await"
    /\ Cardinality(ax_failures) < MaxFailures
    /\ ax_pending' = Tail(ax_pending)
    /\ ax_failures' = ax_failures \cup {Top.node_id}
    /\ ax_stack' = <<>>
    /\ ax_returned' = << <<>> >>
    /\ UNCHANGED <<ax_browser, ax_requests, ax_examined>>
    /\ UNCHANGED <<fusion_vars, service_vars, dom_vars>>
    /\ UNCHANGED serializer_vars

\* The call fails: the exception is caught and logged, and the activation
\* returns its result, which is still empty.
FailGetChildAXNodes ==
    /\ ax_stack # <<>>
    /\ Top.pc = "await"
    /\ Cardinality(ax_failures) < MaxFailures
    /\ ax_pending' = Tail(ax_pending)
    /\ ax_failures' = ax_failures \cup {Top.node_id}
    /\ ReturnFromTop(Top.result)
    /\ UNCHANGED <<ax_browser, ax_requests, ax_examined>>
    /\ UNCHANGED <<fusion_vars, service_vars, dom_vars>>
    /\ UNCHANGED serializer_vars

\* One round of the loop over the response nodes: a node that is not ignored
\* is appended to result and its childIds are recursed into next.
ExamineNode ==
    /\ ax_stack # <<>>
    /\ Top.pc = "loop"
    /\ Top.child_ids = <<>>
    /\ Top.nodes # <<>>
    /\ LET node == Head(Top.nodes)
       IN /\ ax_examined' = ax_examined \cup {node.nodeId}
          /\ ax_stack' =
                ReplaceTop(IF ~node.ignored
                           THEN [Top EXCEPT !.nodes = Tail(@),
                                            !.result = Append(@, node),
                                            !.child_ids = node.childIds]
                           ELSE [Top EXCEPT !.nodes = Tail(@)])
    /\ UNCHANGED <<ax_browser, ax_pending, ax_requests, ax_failures, ax_returned>>
    /\ UNCHANGED <<fusion_vars, service_vars, dom_vars>>
    /\ UNCHANGED serializer_vars

\* The loops are over: return result.
ReturnNodes ==
    /\ ax_stack # <<>>
    /\ Top.pc = "loop"
    /\ Top.child_ids = <<>>
    /\ Top.nodes = <<>>
    /\ ReturnFromTop(Top.result)
    /\ UNCHANGED <<ax_browser, ax_pending, ax_requests, ax_examined, ax_failures>>
    /\ UNCHANGED <<fusion_vars, service_vars, dom_vars>>
    /\ UNCHANGED serializer_vars

InitAX ==
    /\ IdleFusion /\ InitWalk /\ InitService("get_accessibility_tree") /\ IdleDom
    /\ IdleSerializer

NextAX ==
    \/ BrowserAddAXNode
    \/ CallService
    \/ GetCurrentPage
    \/ SendRequest
    \/ ReceiveResponse
    \/ FailRequest
    \/ GetAccessibilityTree
    \/ CallGetInterestingNodes
    \/ SendGetChildAXNodes
    \/ ReceiveChildAXNodes
    \/ FailGetChildAXNodes
    \/ ExamineNode
    \/ ReturnNodes

SpecAX == InitAX /\ [][NextAX]_vars

(***************************************************************************)
(* The document in the browser.  A profile holds the parent of a node and  *)
(* the link that attaches it: "children", "shadowRoots", "contentDocument",*)
(* or "unloaded" for a child the browser does not hand out before the      *)
(* children of its parent are requested.  The root is a document.          *)
(***************************************************************************)
DomProfile(parent, link) == [parent |-> parent, link |-> link]

RECURSIVE LinkedIds(_, _, _, _)
LinkedIds(b, parent, links, i) ==
    IF i > Len(b) THEN <<>>
    ELSE (IF b[i].parent = parent /\ b[i].link \in links THEN <<i>> ELSE <<>>)
         \o LinkedIds(b, parent, links, i + 1)

DocKindOf(b, i) ==
    CASE b[i].link \in {"root", "contentDocument"} -> "#document"
      [] b[i].link = "shadowRoots" -> "#document-fragment"
      [] LinkedIds(b, i, {"contentDocument"}, 1) # <<>> -> "iframe"
      [] OTHER -> "div"

\* The cdp Node of a response: children is absent (empty here) while the
\* children are unloaded, and childNodeCount counts them all the same;
\* frameId and contentDocument are None (<<>>) except on a frame owner.
DocNodeOf(b, i) ==
    LET kind == DocKindOf(b, i)
    IN [nodeId |-> i,
        backendNodeId |-> DocBackendIdOf(i),
        nodeType |-> CASE kind = "#document" -> DOCUMENT_NODE
                       [] kind = "#document-fragment" -> DOCUMENT_FRAGMENT_NODE
                       [] OTHER -> ELEMENT_NODE,
        nodeName |-> CASE kind = "div" -> "DIV"
                       [] kind = "iframe" -> "IFRAME"
                       [] OTHER -> kind,
        localName |-> IF kind \in {"div", "iframe"} THEN kind ELSE "",
        nodeValue |-> "",
        attributes |-> <<>>,
        children |-> LinkedIds(b, i, {"children"}, 1),
        childNodeCount |-> Len(LinkedIds(b, i, {"children", "unloaded"}, 1)),
        shadowRoots |-> LinkedIds(b, i, {"shadowRoots"}, 1),
        frameId |-> IF kind = "iframe" THEN <<"frame">> ELSE <<>>,
        contentDocument |-> LinkedIds(b, i, {"contentDocument"}, 1)]

\* what the browser answers to DOM.getDocument(depth = -1, pierce = True)
DocTreeOf(b) == [root |-> 1, nodes |-> [i \in 1..Len(b) |-> DocNodeOf(b, i)]]

RECURSIVE DomAncestorsOrSelf(_, _)
DomAncestorsOrSelf(b, i) ==
    IF i = 0 THEN {} ELSE {i} \cup DomAncestorsOrSelf(b, b[i].parent)

\* DOM.requestChildNodes(nodeId, depth = -1, pierce = True) makes the browser
\* hand out the children of the node and of the nodes below it.
LoadSubtree(b, id) ==
    [i \in 1..Len(b) |->
        IF b[i].link = "unloaded" /\ id \in DomAncestorsOrSelf(b, b[i].parent)
        THEN [b[i] EXCEPT !.link = "children"] ELSE b[i]]

\* the nodes that may hold the next node under that link
DomHostsFor(b, link) ==
    {h \in DomAncestorsOrSelf(b, Len(b)) :
        CASE link = "children" ->
                 DocKindOf(b, h) # "iframe" /\ LinkedIds(b, h, {"unloaded"}, 1) = <<>>
          [] link = "unloaded" ->
                 DocKindOf(b, h) # "iframe" /\ LinkedIds(b, h, {"children"}, 1) = <<>>
          [] link = "shadowRoots" -> DocKindOf(b, h) = "div"
          [] OTHER ->
                 /\ DocKindOf(b, h) = "div"
                 /\ LinkedIds(b, h, {"children", "unloaded", "shadowRoots"}, 1) = <<>>}

\* document > iframe, whose document holds an iframe with a document
NestedFramesDocument ==
    <<DomProfile(0, "root"), DomProfile(1, "children"), DomProfile(2, "contentDocument"),
      DomProfile(3, "children"), DomProfile(4, "contentDocument")>>

\* document > div with two shadow roots, the second with a child that is
\* not loaded
ShadowRootsDocument ==
    <<DomProfile(0, "root"), DomProfile(1, "children"), DomProfile(2, "shadowRoots"),
      DomProfile(2, "shadowRoots"), DomProfile(4, "unloaded")>>

InitDom ==
    /\ dom_browser \in {<<DomProfile(0, "root")>>, NestedFramesDocument,
                         ShadowRootsDocument}
    /\ dom_stack = <<>>
    /\ doc_response = <<>>
    /\ all_nodes = <<>>
    /\ frame_documents = <<>>
    /\ frame_index = 0
    /\ dom_failures = <<>>
    /\ dom_returned = <<>>

\* The document gets one more node, before the call.
BrowserAddDomNode ==
    /\ ~CallStarted
    /\ Len(dom_browser) < MaxDomNodes
    /\ \E link \in {"children", "unloaded", "shadowRoots", "contentDocument"} :
          \E h \in DomHostsFor(dom_browser, link) :
             dom_browser' = Append(dom_browser, DomProfile(h, link))
    /\ UNCHANGED <<dom_stack, doc_response, all_nodes, frame_documents, frame_index,
                   dom_failures, dom_returned>>
    /\ UNCHANGED <<fusion_vars, walk_vars, service_vars>>
    /\ UNCHANGED serializer_vars

(***************************************************************************)
(* A11yService.get_entire_dom_tree and _collect_all_nodes.  An activation  *)
(* of _collect_all_nodes holds its node (node_id in the response doc it    *)
(* was found in), the rest of its two loops, and whether its               *)
(* frame_documents is the list of get_entire_dom_tree (queue) or the list  *)
(* made for the walk of a frame document, which nobody reads.              *)
(***************************************************************************)
DomFrame(node_id, doc, queue) ==
    [node_id |-> node_id, doc |-> doc, pc |-> "enter", shadow_roots |-> <<>>,
     children |-> <<>>, queue |-> queue]

DomTop == dom_stack[Len(dom_stack)]

DomNode == DomTop.doc[DomTop.node_id]

ReplaceDomTop(frame) == [dom_stack EXCEPT ![Len(dom_stack)] = frame]

ReturnFromDomTop == SubSeq(dom_stack, 1, Len(dom_stack) - 1)

RECURSIVE find_node_by_id(_, _, _), FindNodeAmong(_, _, _)
\* _find_node_by_id looks through children and shadowRoots: <<>> is None
find_node_by_id(doc, root_id, target_id) ==
    IF doc[root_id].nodeId = target_id THEN <<doc[root_id]>>
    ELSE LET result == FindNodeAmong(doc, doc[root_id].children, target_id)
         IN IF result # <<>> THEN result
            ELSE FindNodeAmong(doc, doc[root_id].shadowRoots, target_id)

FindNodeAmong(doc, ids, target_id) ==
    IF ids = <<>> THEN <<>>
    ELSE LET result == find_node_by_id(doc, Head(ids), target_id)
         IN IF result # <<>> THEN result ELSE FindNodeAmong(doc, Tail(ids), target_id)

\* The response to the first DOM.getDocument arrives: the walk starts at its
\* root with an empty table and an empty list of frame documents.
GetEntireDomTree ==
    /\ svc.fn = "get_entire_dom_tree"
    /\ svc.phase = "await"
    /\ svc.step = 5
    /\ cdp_pending # <<>>
    /\ cdp_pending' = Tail(cdp_pending)
    /\ svc' = [svc EXCEPT !.phase = "walk"]
    /\ LET doc == DocTreeOf(dom_browser)
       IN /\ doc_response' = <<doc>>
          /\ dom_stack' = <<DomFrame(doc.root, doc.nodes, TRUE)>>
    /\ all_nodes' = <<>>
    /\ frame_documents' = <<>>
    /\ UNCHANGED <<dom_browser, frame_index, dom_failures, dom_returned>>
    /\ UNCHANGED <<browser, cdp_requests>>
    /\ UNCHANGED <<fusion_vars, walk_vars>>
    /\ UNCHANGED serializer_vars

\* _collect_all_nodes enters the node in the table under its nodeId.
CollectNode ==
    /\ dom_stack # <<>>
    /\ DomTop.pc = "enter"
    /\ all_nodes' = IF DomNode.nodeId # 0
                    THEN DictSet(all_nodes, DomNode.nodeId, DomNode)
                    ELSE all_nodes
    /\ dom_stack' = ReplaceDomTop([DomTop EXCEPT !.pc = "shadow",
                                                 !.shadow_roots = DomNode.shadowRoots])
    /\ UNCHANGED <<dom_browser, doc_response, frame_documents, frame_index,
                   dom_failures, dom_returned>>
    /\ UNCHANGED <<fusion_vars, walk_vars, service_vars>>
    /\ UNCHANGED serializer_vars

\* Mutant: the request for a shadow root is not awaited, and the walk of the
\* shadow root starts at once.
SendRequestChildNodesNotAwaited ==
    /\ dom_stack # <<>>
    /\ \/ DomTop.pc = "shadow" /\ DomTop.shadow_roots # <<>>
       \/ DomTop.pc = "unloaded"
    /\ LET request == Request("DOM.requestChildNodes",
                              IF DomTop.pc = "shadow" THEN Head(DomTop.shadow_roots)
                              ELSE DomTop.node_id)
       IN /\ cdp_pending' = Append(cdp_pending, request)
          /\ cdp_requests' = Append(cdp_requests, request)
    /\ dom_stack' =
          IF DomTop.pc = "shadow"
          THEN Append(ReplaceDomTop([DomTop EXCEPT !.shadow_roots = Tail(@)]),
                      DomFrame(Head(DomTop.shadow_roots), DomTop.doc, DomTop.queue))
          ELSE ReplaceDomTop([DomTop EXCEPT !.pc = "await_children"])
    /\ UNCHANGED <<dom_browser, doc_response, all_nodes, frame_documents, frame_index,
                   dom_failures, dom_returned>>
    /\ UNCHANGED <<browser, svc>>
    /\ UNCHANGED <<fusion_vars, walk_vars>>
    /\ UNCHANGED serializer_vars

\* DOM.requestChildNodes is issued for the next shadow root, or for the node
\* itself when its children are not loaded.
SendRequestChildNodes ==
    /\ dom_stack # <<>>
    /\ \/ DomTop.pc = "shadow" /\ DomTop.shadow_roots # <<>>
       \/ DomTop.pc = "unloaded"
    /\ LET request == Request("DOM.requestChildNodes",
                              IF DomTop.pc = "shadow" THEN Head(DomTop.shadow_roots)
                              ELSE DomTop.node_id)
       IN /\ cdp_pending' = Append(cdp_pending, request)
          /\ cdp_requests' = Append(cdp_requests, request)
    /\ dom_stack' = ReplaceDomTop([DomTop EXCEPT !.pc = IF DomTop.pc = "shadow"
                                                        THEN "await_shadow"
                                                        ELSE "await_children"])
    /\ UNCHANGED <<dom_browser, doc_response, all_nodes, frame_documents, frame_index,
                   dom_failures, dom_returned>>
    /\ UNCHANGED <<browser, svc>>
    /\ UNCHANGED <<fusion_vars, walk_vars>>
    /\ UNCHANGED serializer_vars

\* The response arrives: the shadow root is walked next, or the document is
\* fetched again for the node whose children were requested.
ReceiveRequestChildNodes ==
    /\ dom_stack # <<>>
    /\ DomTop.pc \in {"await_shadow", "await_children"}
    /\ cdp_pending # <<>>
    /\ cdp_pending' = Tail(cdp_pending)
    /\ dom_browser' = LoadSubtree(dom_browser, Head(cdp_pending).id)
    /\ dom_stack' =
          IF DomTop.pc = "await_shadow"
          THEN Append(ReplaceDomTop([DomTop EXCEPT !.pc = "shadow",
                                                   !.shadow_roots = Tail(@)]),
                      DomFrame(Head(DomTop.shadow_roots), DomTop.doc, DomTop.queue))
          ELSE ReplaceDomTop([DomTop EXCEPT !.pc = "refetch"])
    /\ UNCHANGED <<doc_response, all_nodes, frame_documents, frame_index,
                   dom_failures, dom_returned>>
    /\ UNCHANGED <<browser, svc, cdp_requests>>
    /\ UNCHANGED <<fusion_vars, walk_vars>>
    /\ UNCHANGED serializer_vars

\* Mutant: the exception leaves _collect_all_nodes, and get_entire_dom_tree
\* logs it and raises it again.
FailRequestChildNodesRaises ==
    /\ dom_stack # <<>>
    /\ DomTop.pc \in {"await_shadow", "await_children"}
    /\ cdp_pending # <<>>
    /\ Len(dom_failures) < MaxFailures
    /\ cdp_pending' = Tail(cdp_pending)
    /\ dom_failures' = Append(dom_failures, Head(cdp_pending))
    /\ dom_stack' = <<>>
    /\ svc' = [svc EXCEPT !.phase = "raised"]
    /\ UNCHANGED <<dom_browser, doc_response, all_nodes, frame_documents, frame_index,
                   dom_returned>>
    /\ UNCHANGED <<browser, cdp_requests>>
    /\ UNCHANGED <<fusion_vars, walk_vars>>
    /\ UNCHANGED serializer_vars

\* Mutant: after a failure the request is issued again.
FailRequestChildNodesRetries ==
    /\ dom_stack # <<>>
    /\ DomTop.pc \in {"await_shadow", "await_children"}
    /\ cdp_pending # <<>>
    /\ Len(dom_failures) < MaxFailures
    /\ cdp_pending' = Tail(cdp_pending)
    /\ dom_failures' = Append(dom_failures, Head(cdp_pending))
    /\ dom_stack' = ReplaceDomTop([DomTop EXCEPT !.pc = IF DomTop.pc = "await_shadow"
                                                        THEN "shadow" ELSE "unloaded"])
    /\ UNCHANGED <<dom_browser, doc_response, all_nodes, frame_documents, frame_index,
                   dom_returned>>
    /\ UNCHANGED <<browser, svc, cdp_requests>>
    /\ UNCHANGED <<fusion_vars, walk_vars>>
    /\ UNCHANGED serializer_vars

\* The call fails and the exception is caught and logged: the shadow root is
\* left out and the loop goes on, or the unloaded children are left out.
FailRequestChildNodes ==
    /\ dom_stack # <<>>
    /\ DomTop.pc \in {"await_shadow", "await_children"}
    /\ cdp_pending # <<>>
    /\ Len(dom_failures) < MaxFailures
    /\ cdp_pending' = Tail(cdp_pending)
    /\ dom_failures' = Append(dom_failures, Head(cdp_pending))
    /\ dom_stack' =
          IF DomTop.pc = "await_shadow"
          THEN ReplaceDomTop([DomTop EXCEPT !.pc = "shadow", !.shadow_roots = Tail(@)])
          ELSE ReturnFromDomTop
    /\ UNCHANGED <<dom_browser, doc_response, all_nodes, frame_documents, frame_index,
                   dom_returned>>
    /\ UNCHANGED <<browser, svc, cdp_requests>>
    /\ UNCHANGED <<fusion_vars, walk_vars>>
    /\ UNCHANGED serializer_vars

\* After the shadow roots: the contentDocument of a frame owner is appended
\* to frame_documents; then the children are looped over, or requested when
\* the node has none but counts some.
CheckFrameOwner ==
    /\ dom_stack # <<>>
    /\ DomTop.pc = "shadow"
    /\ DomTop.shadow_roots = <<>>
    /\ frame_documents' =
          IF DomNode.frameId # <<>> /\ DomNode.contentDocument # <<>> /\ DomTop.queue
          THEN Append(frame_documents,
                      [node_id |-> DomNode.contentDocument[1], doc |-> DomTop.doc])
          ELSE frame_documents
    /\ dom_stack' =
          ReplaceDomTop(IF DomNode.children = <<>> /\ DomNode.childNodeCount > 0
                        THEN [DomTop EXCEPT !.pc = "unloaded"]
                        ELSE [DomTop EXCEPT !.pc = "children",
                                            !.children = DomNode.children])
    /\ UNCHANGED <<dom_browser, doc_response, all_nodes, frame_index, dom_failures,
                   dom_returned>>
    /\ UNCHANGED <<fusion_vars, walk_vars, service_vars>>
    /\ UNCHANGED serializer_vars

\* await self._collect_all_nodes(child, all_nodes, frame_documents, session_id)
CallCollectAllNodes ==
    /\ dom_stack # <<>>
    /\ DomTop.pc = "children"
    /\ DomTop.children # <<>>
    /\ dom_stack' = Append(ReplaceDomTop([DomTop EXCEPT !.children = Tail(@)]),
                           DomFrame(Head(DomTop.children), DomTop.doc, DomTop.queue))
    /\ UNCHANGED <<dom_browser, doc_response, all_nodes, frame_documents, frame_index,
                   dom_failures, dom_returned>>
    /\ UNCHANGED <<fusion_vars, walk_vars, service_vars>>
    /\ UNCHANGED serializer_vars

\* DOM.getDocument is issued again after the children were requested.
SendGetDocument ==
    /\ dom_stack # <<>>
    /\ DomTop.pc = "refetch"
    /\ LET request == Request("DOM.getDocument", 0)
       IN /\ cdp_pending' = Append(cdp_pending, request)
          /\ cdp_requests' = Append(cdp_requests, request)
    /\ dom_stack' = ReplaceDomTop([DomTop EXCEPT !.pc = "await_refetch"])
    /\ UNCHANGED <<dom_browser, doc_response, all_nodes, frame_documents, frame_index,
                   dom_failures, dom_returned>>
    /\ UNCHANGED <<browser, svc>>
    /\ UNCHANGED <<fusion_vars, walk_vars>>
    /\ UNCHANGED serializer_vars

\* The updated document arrives: the node is looked up in it by its id and
\* its children, when it is found and has some, are looped over.
ReceiveGetDocument ==
    /\ dom_stack # <<>>
    /\ DomTop.pc = "await_refetch"
    /\ cdp_pending # <<>>
    /\ cdp_pending' = Tail(cdp_pending)
    /\ LET updated_doc == DocTreeOf(dom_browser)
           updated_node == find_node_by_id(updated_doc.nodes, updated_doc.root,
                                           DomTop.node_id)
       IN dom_stack' =
             ReplaceDomTop(IF updated_node # <<>>
                           THEN [DomTop EXCEPT !.pc = "children",
                                               !.children = updated_node[1].children,
                                               !.doc = updated_doc.nodes]
                           ELSE [DomTop EXCEPT !.pc = "children"])
    /\ UNCHANGED <<dom_browser, doc_response, all_nodes, frame_documents, frame_index,
                   dom_failures, dom_returned>>
    /\ UNCHANGED <<browser, svc, cdp_requests>>
    /\ UNCHANGED <<fusion_vars, walk_vars>>
    /\ UNCHANGED serializer_vars

\* The call fails: the exception is caught and logged, and the activation
\* returns.
FailGetDocument ==
    /\ dom_stack # <<>>
    /\ DomTop.pc = "await_refetch"
    /\ cdp_pending # <<>>
    /\ Len(dom_failures) < MaxFailures
    /\ cdp_pending' = Tail(cdp_pending)
    /\ dom_failures' = Append(dom_failures, Head(cdp_pending))
    /\ dom_stack' = ReturnFromDomTop
    /\ UNCHANGED <<dom_browser, doc_response, all_nodes, frame_documents, frame_index,
                   dom_returned>>
    /\ UNCHANGED <<browser, svc, cdp_requests>>
    /\ UNCHANGED <<fusion_vars, walk_vars>>
    /\ UNCHANGED serializer_vars

\* The loops are over: the activation returns.
ReturnCollectAllNodes ==
    /\ dom_stack # <<>>
    /\ DomTop.pc = "children"
    /\ DomTop.children = <<>>
    /\ dom_stack' = ReturnFromDomTop
    /\ UNCHANGED <<dom_browser, doc_response, all_nodes, frame_documents, frame_index,
                   dom_failures, dom_returned>>
    /\ UNCHANGED <<fusion_vars, walk_vars, service_vars>>
    /\ UNCHANGED serializer_vars

DomWalkOver ==
    /\ svc.fn = "get_entire_dom_tree"
    /\ svc.phase = "walk"
    /\ dom_stack = <<>>
    /\ dom_returned = <<>>

\* get_entire_dom_tree walks the next frame document, with a new list in the
\* place of frame_documents.
WalkFrameDocument ==
    /\ DomWalkOver
    /\ frame_index < Len(frame_documents)
    /\ frame_index' = frame_index + 1
    /\ LET frame_doc == frame_documents[frame_index + 1]
       IN dom_stack' = <<DomFrame(frame_doc.node_id, frame_doc.doc, FALSE)>>
    /\ UNCHANGED <<dom_browser, doc_response, all_nodes, frame_documents, dom_failures,
                   dom_returned>>
    /\ UNCHANGED <<fusion_vars, walk_vars, service_vars>>
    /\ UNCHANGED serializer_vars

\* return doc_response
ReturnDocResponse ==
    /\ DomWalkOver
    /\ frame_index = Len(frame_documents)
    /\ dom_returned' = doc_response
    /\ UNCHANGED <<dom_browser, dom_stack, doc_response, all_nodes, frame_documents,
                   frame_index, dom_failures>>
    /\ UNCHANGED <<fusion_vars, walk_vars, service_vars>>
    /\ UNCHANGED serializer_vars

(***************************************************************************)
(* A11yService.get_combined_tree: get_accessibility_tree, then             *)
(* get_entire_dom_tree, then create_combined_tree on what the two returned.*)
(***************************************************************************)
\* dom_tree = await self.get_entire_dom_tree(), once get_accessibility_tree
\* has returned
CallGetEntireDomTree ==
    /\ svc.entry = "get_combined_tree"
    /\ svc.fn = "get_accessibility_tree"
    /\ ax_returned # <<>>
    /\ svc' = [svc EXCEPT !.fn = "get_entire_dom_tree", !.phase = "start",
                          !.step = 0, !.session_id = <<>>]
    /\ UNCHANGED <<browser, cdp_pending, cdp_requests>>
    /\ UNCHANGED <<fusion_vars, walk_vars, dom_vars>>
    /\ UNCHANGED serializer_vars

\* return self.combined_tree_processor.create_combined_tree(accessibility_tree,
\* dom_tree), once get_entire_dom_tree has returned
ReturnCombinedTree ==
    /\ svc.entry = "get_combined_tree"
    /\ svc.fn = "get_entire_dom_tree"
    /\ dom_returned # <<>>
    /\ response = <<>>
    /\ accessibility_tree' = [nodes |-> ax_returned[1]]
    /\ dom_tree' = dom_returned[1]
    /\ LET run == RunFusion(accessibility_tree', dom_tree')
       IN /\ response' = <<CombinedTreeResponse(run)>>
          /\ first_response' = <<CombinedTreeResponse(run)>>
          /\ interactive_counter' = run.st.interactive_counter
    /\ runs' = "once"
    /\ UNCHANGED page
    /\ UNCHANGED <<walk_vars, service_vars, dom_vars>>
    /\ UNCHANGED serializer_vars

\* the AX trees the browser holds in a call of get_combined_tree: none, and
\* 1 > 2 > 3 with no node ignored
ServiceAXTrees ==
    {<<>>,
     <<[BrowserAXNode(1, FALSE, 0) EXCEPT !.childIds = <<2>>],
       [BrowserAXNode(2, FALSE, 1) EXCEPT !.childIds = <<3>>],
       BrowserAXNode(3, FALSE, 2)>>}

InitGet ==
    /\ IdleFusion
    /\ ax_browser \in ServiceAXTrees
    /\ ax_stack = <<>>
    /\ ax_pending = <<>>
    /\ ax_requests = <<>>
    /\ ax_examined = {}
    /\ ax_failures = {}
    /\ ax_returned = <<>>
    /\ InitService("get_combined_tree")
    /\ InitDom
    /\ IdleSerializer

NextGet ==
    \/ BrowserAddDomNode
    \/ CallService
    \/ GetCurrentPage
    \/ SendRequest
    \/ ReceiveResponse
    \/ FailRequest
    \/ GetAccessibilityTree
    \/ CallGetInterestingNodes
    \/ SendGetChildAXNodes
    \/ ReceiveChildAXNodes
    \/ FailGetChildAXNodes
    \/ ExamineNode
    \/ ReturnNodes
    \/ CallGetEntireDomTree
    \/ GetEntireDomTree
    \/ CollectNode
    \/ SendRequestChildNodes
    \/ ReceiveRequestChildNodes
    \/ FailRequestChildNodes
    \/ CheckFrameOwner
    \/ CallCollectAllNodes
    \/ SendGetDocument
    \/ ReceiveGetDocument
    \/ FailGetDocument
    \/ ReturnCollectAllNodes
    \/ WalkFrameDocument
    \/ ReturnDocResponse
    \/ ReturnCombinedTree

SpecGet == InitGet /\ [][NextGet]_vars

(***************************************************************************)
(* What the claims speak of, stated on the raw inputs and on the response, *)
(* independently of how the processor computes it.                         *)
(***************************************************************************)
StructuralSet ==
    {"#document", "#document-fragment", "html", "head", "body", "title",
     "meta", "link", "style", "script", "noscript"}

\* the DOM node's name or local name is in the structural set
IsStructural(dom_node) ==
    \/ Lower(dom_node.nodeName) \in StructuralSet
    \/ Lower(dom_node.localName) \in StructuralSet

\* a non-ignored AX node of the list has the DOM node's backend node id
HasLiveAXNode(dom_node) ==
    \E i \in 1..Len(accessibility_tree.nodes) :
        /\ ~accessibility_tree.nodes[i].ignored
        /\ accessibility_tree.nodes[i].backendDOMNodeId = dom_node.backendNodeId

\* a non-ignored AX node of the list with the DOM node's backend node id is focusable
HasFocusableAXNode(dom_node) ==
    \E i \in 1..Len(accessibility_tree.nodes) :
        /\ ~accessibility_tree.nodes[i].ignored
        /\ accessibility_tree.nodes[i].backendDOMNodeId = dom_node.backendNodeId
        /\ \E k \in 1..Len(accessibility_tree.nodes[i].properties) :
              /\ accessibility_tree.nodes[i].properties[k].name = "focusable"
              /\ accessibility_tree.nodes[i].properties[k].value = TRUE

\* the DOM node has attached accessibility data after the suppression rule
HasAttachedAX(id) ==
    /\ ~IsStructural(dom_tree.nodes[id])
    /\ HasLiveAXNode(dom_tree.nodes[id])

\* the DOM nodes reachable from id through children and shadowRoots links
RECURSIVE DomSubtree(_)
DomSubtree(id) ==
    {id} \cup UNION {DomSubtree(c) :
                        c \in SeqToSet(dom_tree.nodes[id].children)
                              \cup SeqToSet(dom_tree.nodes[id].shadowRoots)}

\* the objects of a Fused Tree in depth-first pre-order
RECURSIVE PreOrder(_, _)
RECURSIVE PreOrderAll(_, _)
PreOrder(heap, ref) == <<ref>> \o PreOrderAll(heap, heap[ref].children)
PreOrderAll(heap, refs) ==
    IF refs = <<>> THEN <<>>
    ELSE PreOrder(heap, Head(refs)) \o PreOrderAll(heap, Tail(refs))

TreeOrder(r) == PreOrder(r.heap, r.root)
TreeNodes(r) == SeqToSet(TreeOrder(r))

CarriesIndex(node) ==
    node.cls = "CombinedElementNode" /\ node.interactive_index # <<>>

\* the interactive indices met along a sequence of objects
RECURSIVE IndicesAlong(_, _)
IndicesAlong(heap, refs) ==
    IF refs = <<>> THEN <<>>
    ELSE (IF CarriesIndex(heap[Head(refs)]) THEN heap[Head(refs)].interactive_index
          ELSE <<>>) \o IndicesAlong(heap, Tail(refs))

\* the DOM node appears in the Fused Tree (as a node, a container or the root)
Appears(id, r) == \E n \in TreeNodes(r) : r.heap[n].node_id = id

Occurrences(seq, x) == Cardinality({i \in 1..Len(seq) : seq[i] = x})

\* create_combined_tree has run on the inputs
Fused == response # <<>>

\* no DOM node of the subtree of id has attached accessibility data
Barren(id) == \A d \in DomSubtree(id) : ~HasAttachedAX(d)

\* create_combined_tree has run on the input of the round-trip scenario
ScenarioFused ==
    /\ Fused
    /\ dom_tree = DomTreeOf(ScenarioPage)
    /\ accessibility_tree = AXTreeOf(ScenarioPage)

\* the DOM node holding id in its children or shadowRoots
DomParents(id) ==
    {h \in DOMAIN dom_tree.nodes :
        id \in SeqToSet(dom_tree.nodes[h].children)
               \cup SeqToSet(dom_tree.nodes[h].shadowRoots)}

\* the node of the Fused Tree has a node name or tag name of the structural set
FusedStructural(node) ==
    Lower(node.node_name) \in StructuralSet \/ node.tag_name \in StructuralSet

\* the AX node and its ancestors up to the root are all not ignored
Interesting(id) == \A a \in AXAncestorsOrSelf(ax_browser, id) : ~ax_browser[a].ignored

\* the nodeIds of the nodes get_accessibility_tree returned, in order
ReturnedIds == [i \in 1..Len(ax_returned[1]) |-> ax_returned[1][i].nodeId]

(***************************************************************************)
(* C1: after create_combined_tree, interactive_nodes equals the number of  *)
(* nodes of the Fused Tree that carry an interactive_index, and the        *)
(* indices met in depth-first pre-order are 0, 1, ..., interactive_nodes-1.*)
(* The code breaks this for a text node with a focusable AX node: the      *)
(* counter advances, and CombinedTextNode has no interactive_index.        *)
(***************************************************************************)
C1_IndicesContiguous ==
    Fused =>
        LET r == response[1]
            indices == IndicesAlong(r.heap, TreeOrder(r))
        IN /\ Len(indices) = r.interactive_nodes
           /\ \A k \in 1..Len(indices) : indices[k] = k - 1

(***************************************************************************)
(* C4 as stated: a DOM node without attached accessibility data of its own *)
(* and without a descendant with attached accessibility data never appears *)
(* in the Fused Tree, not even as the root.                                *)
(***************************************************************************)
C4_BarrenNeverAppears ==
    Fused => \A id \in DOMAIN dom_tree.nodes : Barren(id) => ~Appears(id, response[1])

(***************************************************************************)
(* C4 amended: such a DOM node appears in the Fused Tree only when it is   *)
(* the DOM root, and then as the placeholder root, which has no children,  *)
(* no accessibility data and no interactive index.                         *)
(***************************************************************************)
C4_BarrenOnlyAsPlaceholder ==
    Fused =>
        LET r == response[1]
        IN \A id \in DOMAIN dom_tree.nodes :
              Barren(id) =>
                 \A n \in TreeNodes(r) :
                    r.heap[n].node_id = id =>
                       /\ id = dom_tree.root
                       /\ n = r.root
                       /\ r.heap[n].children = <<>>
                       /\ r.heap[n].accessibility = <<>>
                       /\ r.heap[n].interactive_index = <<>>

\* a barren DOM node under a node of the Fused Tree has been left out
C4_Witness ==
    /\ Fused
    /\ \E id \in DOMAIN dom_tree.nodes :
          /\ Barren(id)
          /\ id # dom_tree.root
          /\ ~Appears(id, response[1])
          /\ \E host \in DOMAIN dom_tree.nodes :
                /\ id \in SeqToSet(dom_tree.nodes[host].children)
                /\ Appears(host, response[1])
                /\ HasAttachedAX(host)

(***************************************************************************)
(* C5 as stated: for div > (span#a "Hello", span#b "World") where only     *)
(* span#a has an AX node (button, focusable), the root is a container      *)
(* Element for div without accessibility data that holds Element span#a    *)
(* with interactive_index 0, and span#b appears nowhere.                   *)
(***************************************************************************)
C5_ScenarioRootIsDivContainer ==
    ScenarioFused =>
        LET r == response[1]
            root == r.heap[r.root]
        IN /\ root.cls = "CombinedElementNode"
           /\ root.node_id = 1
           /\ root.tag_name = "div"
           /\ root.accessibility = <<>>
           /\ \E c \in SeqToSet(root.children) :
                 /\ r.heap[c].node_id = 2
                 /\ r.heap[c].cls = "CombinedElementNode"
                 /\ r.heap[c].interactive_index = <<0>>
           /\ ~Appears(4, r)

(***************************************************************************)
(* C5 amended: for that input the root is Element span#a itself, with its  *)
(* accessibility data, interactive_index 0, no parent and no children: div *)
(* has a single converted child, which takes its place, so no container is *)
(* built and neither div nor span#b appears in the Fused Tree.             *)
(***************************************************************************)
C5_ScenarioRootIsSpanA ==
    ScenarioFused =>
        LET r == response[1]
            root == r.heap[r.root]
        IN /\ root.cls = "CombinedElementNode"
           /\ root.node_id = 2
           /\ root.tag_name = "span"
           /\ root.attributes = << <<"id", "a">> >>
           /\ root.accessibility # <<>>
           /\ root.accessibility[1].role = "button"
           /\ root.interactive_index = <<0>>
           /\ root.parent = <<>>
           /\ root.children = <<>>
           /\ TreeNodes(r) = {r.root}
           /\ ~Appears(1, r)
           /\ ~Appears(4, r)
           /\ r.interactive_nodes = 1

C5_Witness == ScenarioFused /\ response[1].total_nodes = 5

(***************************************************************************)
(* C6: in the Fused Tree the root has no parent, every other node occurs   *)
(* exactly once in the children of exactly one node, and the parent of     *)
(* children[i] is the node holding the list, for every node and every i.   *)
(***************************************************************************)
C6_ParentLinks ==
    Fused =>
        LET r == response[1]
            order == TreeOrder(r)
        IN /\ r.heap[r.root].parent = <<>>
           /\ \A n \in TreeNodes(r) : Occurrences(order, n) = 1
           /\ \A p \in TreeNodes(r) :
                 \A i \in 1..Len(r.heap[p].children) :
                    r.heap[r.heap[p].children[i]].parent = <<p>>
           /\ \A n \in TreeNodes(r) \ {r.root} :
                 /\ r.heap[n].parent # <<>>
                 /\ r.heap[n].parent[1] \in TreeNodes(r)
                 /\ Occurrences(r.heap[r.heap[n].parent[1]].children, n) = 1

\* a node was spliced upward: its parent in the Fused Tree is not its DOM parent
C6_Witness ==
    /\ Fused
    /\ \E n \in TreeNodes(response[1]) :
          /\ response[1].heap[n].parent # <<>>
          /\ response[1].heap[response[1].heap[n].parent[1]].node_id
                \notin DomParents(response[1].heap[n].node_id)

(***************************************************************************)
(* C7: no node of the Fused Tree whose node name or tag name is in the     *)
(* structural set carries accessibility data or an interactive index, even *)
(* when a non-ignored AX node has its backend node id, and no such DOM     *)
(* node is counted in accessible_nodes or interactive_nodes.               *)
(***************************************************************************)
C7_StructuralNeverAccessible ==
    Fused =>
        LET r == response[1]
        IN /\ \A n \in TreeNodes(r) :
                 (r.heap[n].cls = "CombinedElementNode" /\ FusedStructural(r.heap[n])) =>
                    /\ r.heap[n].accessibility = <<>>
                    /\ r.heap[n].interactive_index = <<>>
           /\ r.accessible_nodes =
                 Cardinality({id \in DomSubtree(dom_tree.root) :
                                 /\ ~IsStructural(dom_tree.nodes[id])
                                 /\ HasLiveAXNode(dom_tree.nodes[id])})
           /\ r.interactive_nodes =
                 Cardinality({id \in DomSubtree(dom_tree.root) :
                                 /\ ~IsStructural(dom_tree.nodes[id])
                                 /\ HasFocusableAXNode(dom_tree.nodes[id])})

\* a structural node with a matching focusable AX node is a container of the tree
C7_Witness ==
    /\ Fused
    /\ \E n \in TreeNodes(response[1]) :
          /\ response[1].heap[n].cls = "CombinedElementNode"
          /\ FusedStructural(response[1].heap[n])
          /\ response[1].heap[n].children # <<>>
          /\ HasFocusableAXNode(dom_tree.nodes[response[1].heap[n].node_id])

(***************************************************************************)
(* C8: the root of the response is never null, and when no DOM node has    *)
(* attached accessibility data (the conversion of the DOM root yields      *)
(* nothing) the root is a placeholder Element with the DOM root's node id  *)
(* and backend node id, without accessibility data, interactive index,     *)
(* parent and children, and accessible_nodes = interactive_nodes = 0.      *)
(***************************************************************************)
C8_PlaceholderRoot ==
    Fused =>
        LET r == response[1]
            root == r.heap[r.root]
            dom_root == dom_tree.nodes[dom_tree.root]
        IN /\ r.root \in 1..Len(r.heap)
           /\ Barren(dom_tree.root) =>
                 /\ root.cls = "CombinedElementNode"
                 /\ root.node_id = dom_root.nodeId
                 /\ root.backend_node_id = dom_root.backendNodeId
                 /\ root.accessibility = <<>>
                 /\ root.interactive_index = <<>>
                 /\ root.children = <<>>
                 /\ root.parent = <<>>
                 /\ r.accessible_nodes = 0
                 /\ r.interactive_nodes = 0

\* every AX node of a non-empty list is ignored and the root is the placeholder
C8_Witness ==
    /\ Fused
    /\ Len(accessibility_tree.nodes) >= 2
    /\ \A i \in 1..Len(accessibility_tree.nodes) : accessibility_tree.nodes[i].ignored
    /\ response[1].heap[response[1].root].node_id = dom_tree.root
    /\ response[1].heap[response[1].root].children = <<>>

C10_Counters ==
    Fused =>
        LET r == response[1]
        IN /\ r.total_nodes = Cardinality(DomSubtree(dom_tree.root))
           /\ r.accessible_nodes =
                 Cardinality({n \in TreeNodes(r) : r.heap[n].accessibility # <<>>})
           /\ r.total_nodes >= r.accessible_nodes
           /\ r.accessible_nodes >= r.interactive_nodes

\* a shadow root is counted, and the three counters differ
C10_Witness ==
    /\ Fused
    /\ \E id \in DOMAIN dom_tree.nodes : dom_tree.nodes[id].shadowRoots # <<>>
    /\ response[1].total_nodes > response[1].accessible_nodes
    /\ response[1].accessible_nodes > response[1].interactive_nodes
    /\ response[1].interactive_nodes > 0

(***************************************************************************)
(* C2: without fetch failures get_accessibility_tree returns every AX node *)
(* that is not ignored and has no ignored ancestor, each exactly once, at  *)
(* every depth.  The code asks getChildAXNodes for the children of each    *)
(* child id and never looks at the child itself, so it returns the nodes   *)
(* at even depths only.                                                    *)
(***************************************************************************)
C2_AllInterestingNodesOnce ==
    (ax_returned # <<>> /\ ax_failures = {}) =>
        \A id \in 1..Len(ax_browser) :
           Occurrences(ReturnedIds, id) = IF Interesting(id) THEN 1 ELSE 0

(***************************************************************************)
(* C3: no returned node is ignored or has an ignored ancestor, and         *)
(* getChildAXNodes is only issued for the root or for a node the walk has  *)
(* examined and found not ignored.  The code issues it for the child ids   *)
(* of a kept node, and for those of the root, without examining them.      *)
(***************************************************************************)
C3_IgnoredSubtreesNeverEntered ==
    /\ ax_returned # <<>> =>
          \A i \in 1..Len(ax_returned[1]) : Interesting(ax_returned[1][i].nodeId)
    /\ \A k \in 1..Len(ax_requests) :
          \/ ax_requests[k] = 1
          \/ ax_requests[k] \in ax_examined /\ ~ax_browser[ax_requests[k]].ignored

(***************************************************************************)
(* The walk of get_accessibility_tree when no call fails, as a function of *)
(* the browser's AX tree.                                                  *)
(***************************************************************************)
RECURSIVE InterestingNodesOf(_), InterestingNodesOver(_), KeptOver(_)
\* _get_interesting_nodes(node_id)
InterestingNodesOf(node_id) == KeptOver(getChildAXNodes(node_id))

\* the loop over child_response['nodes']
KeptOver(nodes) ==
    IF nodes = <<>> THEN <<>>
    ELSE LET node == Head(nodes)
         IN (IF ~node.ignored
             THEN <<node>> \o InterestingNodesOver(node.childIds)
             ELSE <<>>) \o KeptOver(Tail(nodes))

\* the loop over childIds
InterestingNodesOver(child_ids) ==
    IF child_ids = <<>> THEN <<>>
    ELSE InterestingNodesOf(Head(child_ids)) \o InterestingNodesOver(Tail(child_ids))

WalkWithoutFailures ==
    IF ax_browser = <<>> THEN <<>>
    ELSE (IF ~ax_browser[1].ignored THEN <<ax_browser[1]>> ELSE <<>>)
         \o InterestingNodesOver(ax_browser[1].childIds)

\* the AX node lies below a node whose getChildAXNodes call failed
BelowFailure(node) == AXAncestorsOrSelf(ax_browser, node.parentId) \cap ax_failures # {}

(***************************************************************************)
(* C11: when getChildAXNodes fails for a node, get_accessibility_tree      *)
(* still returns, in the same order, every node the walk returns without   *)
(* failures, except the nodes below the node the call failed for.          *)
(***************************************************************************)
C11_FailedSubtreeOnlyIsLost ==
    ax_returned # <<>> =>
        ax_returned[1] = SelectSeq(WalkWithoutFailures, LAMBDA node : ~BelowFailure(node))

\* a call failed; a node below it is lost and a node the walk reaches after
\* it is returned
C11_Witness ==
    /\ ax_returned # <<>>
    /\ ax_failures # {}
    /\ \E i, j \in 1..Len(WalkWithoutFailures) :
          /\ i < j
          /\ BelowFailure(WalkWithoutFailures[i])
          /\ \E k \in 1..Len(ax_returned[1]) : ax_returned[1][k] = WalkWithoutFailures[j]

(***************************************************************************)
(* What the claims on get_entire_dom_tree speak of.                        *)
(***************************************************************************)
\* the shadow roots attached to the host, in the browser's document
ShadowRootsOf(host) ==
    {i \in 1..Len(dom_browser) :
        dom_browser[i].parent = host /\ dom_browser[i].link = "shadowRoots"}

\* the node lies in the subtree of r: below it through children and shadow
\* roots, or r itself
RECURSIVE InSubtreeOf(_, _)
InSubtreeOf(i, r) ==
    \/ i = r
    \/ /\ dom_browser[i].parent # 0
       /\ dom_browser[i].link # "contentDocument"
       /\ InSubtreeOf(dom_browser[i].parent, r)

\* the nodeIds of the nodes of a response, from the node with that id on
RECURSIVE NodeIdsIn(_, _), NodeIdsAmong(_, _)
NodeIdsIn(doc, id) ==
    {id} \cup NodeIdsAmong(doc, doc[id].children \o doc[id].shadowRoots
                                \o doc[id].contentDocument)

NodeIdsAmong(doc, ids) ==
    IF ids = <<>> THEN {} ELSE NodeIdsIn(doc, Head(ids)) \cup NodeIdsAmong(doc, Tail(ids))

\* the nodeIds of the nodes get_entire_dom_tree returned
ReturnedNodeIds == NodeIdsIn(dom_returned[1].nodes, dom_returned[1].root)

\* the keys of the table all_nodes
TableNodeIds == {all_nodes[k][1] : k \in 1..Len(all_nodes)}

RequestedChildNodes(id) ==
    \E k \in 1..Len(cdp_requests) : cdp_requests[k] = Request("DOM.requestChildNodes", id)

\* the one request that failed in the walk is requestChildNodes for a shadow root
OnlyFailureIsShadowRoot ==
    /\ Len(dom_failures) = 1
    /\ dom_failures[1].method = "DOM.requestChildNodes"
    /\ dom_browser[dom_failures[1].id].link = "shadowRoots"

OtherShadowRoots ==
    ShadowRootsOf(dom_browser[dom_failures[1].id].parent) \ {dom_failures[1].id}

(***************************************************************************)
(* C12: when DOM.requestChildNodes fails for one shadow root of a host     *)
(* with several, the other shadow roots of the host are requested and      *)
(* walked, and every node of their subtrees is among the nodes that        *)
(* get_entire_dom_tree returns.  The code enters those nodes in all_nodes  *)
(* and returns the first getDocument response instead, which lacks the     *)
(* nodes that were loaded by the walk.                                     *)
(***************************************************************************)
C12_OtherShadowRootsReturned ==
    (dom_returned # <<>> /\ OnlyFailureIsShadowRoot) =>
        \A s \in OtherShadowRoots :
            /\ RequestedChildNodes(s)
            /\ s \in TableNodeIds
            /\ \A i \in 1..Len(dom_browser) : InSubtreeOf(i, s) => i \in ReturnedNodeIds

\* the walk of the running method has begun and the method has not returned
WalkInProgress ==
    /\ svc.phase = "walk"
    /\ \/ svc.fn = "get_accessibility_tree" /\ ax_returned = <<>>
       \/ svc.fn = "get_entire_dom_tree" /\ dom_returned = <<>>

(***************************************************************************)
(* C13: after the first DOM.getDocument succeeded, a failure of            *)
(* requestChildNodes or of the second getDocument never makes              *)
(* get_entire_dom_tree raise, and a failure of getChildAXNodes never makes *)
(* get_accessibility_tree raise: the call raises only before a walk and    *)
(* with no walk request failed, a walk in progress can always go on, and   *)
(* what get_entire_dom_tree returns is the first response.                 *)
(***************************************************************************)
C13_WalkFailuresNeverRaise ==
    /\ svc.phase = "raised" =>
          /\ dom_failures = <<>>
          /\ svc.fn = "get_entire_dom_tree" => doc_response = <<>> /\ ax_stack = <<>>
          /\ svc.fn = "get_accessibility_tree" => ax_failures = {} /\ ax_requests = <<>>
    /\ WalkInProgress => ENABLED NextGet
    /\ dom_returned # <<>> => dom_returned = doc_response /\ doc_response # <<>>

\* get_combined_tree returned although a getChildAXNodes call and a DOM
\* request of the walk failed
C13_Witness ==
    /\ response # <<>>
    /\ ax_failures # {}
    /\ dom_failures # <<>>
    /\ dom_returned # <<>>

\* the frame owners the walk reached: nodes of the table that expose a
\* contentDocument
ReachedFrameOwners ==
    {i \in TableNodeIds : DocNodeOf(dom_browser, i).frameId # <<>>
                          /\ DocNodeOf(dom_browser, i).contentDocument # <<>>}

(***************************************************************************)
(* C14: when get_entire_dom_tree returns after a walk without failed       *)
(* requests, the table holds, for every frame owner the walk reached, in   *)
(* the primary document or in a frame document, the contentDocument of the *)
(* frame owner and every node of that document.  The code walks a frame    *)
(* document with a new list in the place of frame_documents, so the        *)
(* documents of nested frames are never walked.                            *)
(***************************************************************************)
C14_FrameDocumentsInTable ==
    (dom_returned # <<>> /\ dom_failures = <<>>) =>
        \A owner \in ReachedFrameOwners :
            \A i \in 1..Len(dom_browser) :
                InSubtreeOf(i, DocNodeOf(dom_browser, owner).contentDocument[1])
                    => i \in TableNodeIds

\* a request of the Accessibility or DOM domain has been issued
AccessibilityOrDomRequested ==
    \/ ax_requests # <<>>
    \/ \E k \in 1..Len(cdp_requests) :
          cdp_requests[k].method \notin {"Target.getTargets", "Target.attachToTarget"}

(***************************************************************************)
(* C15: when no target of type page has the url of the current page,       *)
(* get_combined_tree issues no Accessibility or DOM request and never      *)
(* invokes create_combined_tree, and it has raised once its getTargets     *)
(* request is over; in every run create_combined_tree is invoked only      *)
(* after get_accessibility_tree and get_entire_dom_tree have returned, on  *)
(* what they returned.                                                     *)
(***************************************************************************)
C15_NoFusionWithoutTrees ==
    /\ MatchingTargets = <<>> =>
          /\ ~AccessibilityOrDomRequested
          /\ response = <<>>
          /\ (cdp_requests # <<>> /\ cdp_pending = <<>>) => svc.phase = "raised"
    /\ response # <<>> =>
          /\ svc.phase # "raised"
          /\ ax_returned # <<>> /\ accessibility_tree = [nodes |-> ax_returned[1]]
          /\ dom_returned # <<>> /\ dom_tree = dom_returned[1]

\* there are targets, none is the page, and the call has raised after
\* getTargets
C15_Witness ==
    /\ browser.targets # <<>>
    /\ MatchingTargets = <<>>
    /\ svc.phase = "raised"
    /\ cdp_requests = <<Request("Target.getTargets", 0)>>
    /\ cdp_pending = <<>>

\* how many entries of the list are that request
CountOf(requests, request) ==
    Cardinality({k \in 1..Len(requests) : requests[k] = request})

\* how many calls of that request have returned a response
Answered(request) ==
    CountOf(cdp_requests, request) - CountOf(cdp_pending, request)
        - CountOf(dom_failures, request)

\* the order in which a depth-first walk of the AX tree meets the nodes
RECURSIVE AXPreOrder(_), AXPreOrderOver(_)
AXPreOrder(id) == <<id>> \o AXPreOrderOver(ax_browser[id].childIds)

AXPreOrderOver(ids) ==
    IF ids = <<>> THEN <<>> ELSE AXPreOrder(Head(ids)) \o AXPreOrderOver(Tail(ids))

\* the order in which a depth-first walk of a document meets the nodes: the
\* node, its shadow roots, its children
RECURSIVE DomPreOrder(_), DomPreOrderOver(_)
DomPreOrder(id) ==
    <<id>> \o DomPreOrderOver(LinkedIds(dom_browser, id, {"shadowRoots"}, 1)
                              \o LinkedIds(dom_browser, id, {"children", "unloaded"}, 1))

DomPreOrderOver(ids) ==
    IF ids = <<>> THEN <<>> ELSE DomPreOrder(Head(ids)) \o DomPreOrderOver(Tail(ids))

\* the primary document, then the queued frame documents, each depth-first
DomWalkOrder ==
    DomPreOrder(1)
        \o DomPreOrderOver([k \in 1..Len(frame_documents) |-> frame_documents[k].node_id])

PositionIn(order, id) == CHOOSE k \in 1..Len(order) : order[k] = id

\* the ids DOM.requestChildNodes was issued for, in order
RequestedChildNodeIds ==
    LET requests == SelectSeq(cdp_requests,
                              LAMBDA request : request.method = "DOM.requestChildNodes")
    IN [k \in 1..Len(requests) |-> requests[k].id]

(***************************************************************************)
(* C20: during a call at most one protocol request is in flight; an AX     *)
(* node is examined only after the getChildAXNodes call for its parent has *)
(* returned, a shadow root is walked only after its requestChildNodes call *)
(* has returned, and a node that the first getDocument response does not   *)
(* hold is walked only after a second getDocument has returned; the        *)
(* requests are issued in depth-first order (the children of a node are    *)
(* requested after its shadow roots and what lies below them).             *)
(***************************************************************************)
C20_OneRequestAtATime ==
    /\ Len(ax_pending) + Len(cdp_pending) <= 1
    /\ \A id \in ax_examined \ {1} :
          LET parent == ax_browser[id].parentId
          IN /\ \E k \in 1..Len(ax_requests) : ax_requests[k] = parent
             /\ parent \notin ax_failures
             /\ parent \notin SeqToSet(ax_pending)
    /\ \A i \in TableNodeIds :
          /\ dom_browser[i].link = "shadowRoots" =>
                Answered(Request("DOM.requestChildNodes", i)) >= 1
          /\ i \notin NodeIdsIn(doc_response[1].nodes, doc_response[1].root) =>
                Answered(Request("DOM.getDocument", 0)) >= 2
    /\ \A k, l \in 1..Len(ax_requests) :
          k < l => PositionIn(AXPreOrder(1), ax_requests[k])
                       < PositionIn(AXPreOrder(1), ax_requests[l])
    /\ \A k, l \in 1..Len(RequestedChildNodeIds) :
          k < l =>
             \/ PositionIn(DomWalkOrder, RequestedChildNodeIds[k])
                    <= PositionIn(DomWalkOrder, RequestedChildNodeIds[l])
             \/ RequestedChildNodeIds[l]
                    \in DomAncestorsOrSelf(dom_browser, RequestedChildNodeIds[k])

\* a walk of the AX tree and a walk of the document that requested a shadow
\* root and fetched the document a second time have returned
C20_Witness ==
    /\ dom_returned # <<>>
    /\ ax_requests # <<>>
    /\ \E i \in TableNodeIds :
          /\ dom_browser[i].link = "shadowRoots"
          /\ Answered(Request("DOM.requestChildNodes", i)) >= 1
    /\ \E i \in TableNodeIds : i \notin ReturnedNodeIds
    /\ Len(RequestedChildNodeIds) >= 2

(***************************************************************************)
(* Strings of the serializer.  A str is a sequence of characters; a tag    *)
(* name, an attribute key, a role and a decimal number are each written as *)
(* one symbol, since the serializer compares them whole and never looks    *)
(* inside them.                                                            *)
(***************************************************************************)
Whitespace == {" ", "\t", "\n"}

RECURSIVE str_lstrip(_)
str_lstrip(s) ==
    IF s # <<>> /\ Head(s) \in Whitespace THEN str_lstrip(Tail(s)) ELSE s

RECURSIVE str_rstrip(_)
str_rstrip(s) ==
    IF s # <<>> /\ s[Len(s)] \in Whitespace
    THEN str_rstrip(SubSeq(s, 1, Len(s) - 1)) ELSE s

\* str.strip()
str_strip(s) == str_rstrip(str_lstrip(s))

LowerChar(c) ==
    CASE c = "S" -> "s"
      [] c = "O" -> "o"
      [] c = "K" -> "k"
      [] OTHER -> c

\* str.lower() on the characters that occur
str_lower(s) == [i \in 1..Len(s) |-> LowerChar(s[i])]

\* sep.join(parts)
RECURSIVE str_join(_, _)
str_join(sep, parts) ==
    IF parts = <<>> THEN <<>>
    ELSE IF Len(parts) = 1 THEN parts[1]
    ELSE parts[1] \o sep \o str_join(sep, Tail(parts))

\* text[:max_length] + '...' if len(text) > max_length else text
Truncated(text, max_length) ==
    IF Len(text) > max_length
    THEN SubSeq(text, 1, max_length) \o <<".", ".", ".">> ELSE text

(***************************************************************************)
(* CombinedBaseNode and CombinedElementNode: the accessors the serializer  *)
(* calls.  A node is a reference into the heap of the response.            *)
(***************************************************************************)
has_accessibility_data(node) == node.accessibility # <<>>

\* <<>> or <<role>>
get_accessibility_role(node) ==
    IF node.accessibility # <<>> /\ node.accessibility[1].role # ""
    THEN <<node.accessibility[1].role>> ELSE <<>>

\* <<>> or <<name>>; the name of an AX node is <<>> or <<str>>
get_accessibility_name(node) ==
    IF node.accessibility # <<>> /\ node.accessibility[1].name # <<>>
       /\ node.accessibility[1].name[1] # <<>>
    THEN <<node.accessibility[1].name[1]>> ELSE <<>>

RECURSIVE collect_text(_, _, _)
RECURSIVE CollectTextOver(_, _, _)
CollectTextOver(heap, self, ids) ==
    IF ids = <<>> THEN <<>>
    ELSE collect_text(heap, self, Head(ids)) \o CollectTextOver(heap, self, Tail(ids))

\* the text_parts that collect_text(node, ...) appends
collect_text(heap, self, node) ==
    IF /\ heap[node].cls = "CombinedElementNode"
       /\ node # self
       /\ has_accessibility_data(heap[node])
    THEN <<>>
    ELSE IF heap[node].cls = "CombinedTextNode" THEN <<heap[node].text>>
    ELSE CollectTextOver(heap, self, heap[node].children)

get_all_text_till_next_accessible_element(heap, self) ==
    str_strip(str_join(<<"\n">>, collect_text(heap, self, self)))

(***************************************************************************)
(* DOMTreeSerializer.  A SimplifiedNode is a record holding its children;  *)
(* an Optional[SimplifiedNode] is <<>> or <<node>>.                        *)
(***************************************************************************)
SimplifiedNode(original_node, children, should_display) ==
    [original_node |-> original_node, children |-> children,
     should_display |-> should_display]

is_text_node(heap, node) == heap[node.original_node].cls = "CombinedTextNode"

is_clickable(heap, node) ==
    /\ heap[node.original_node].cls = "CombinedElementNode"
    /\ heap[node.original_node].interactive_index # <<>>

count_direct_clickable_children(heap, node) ==
    Cardinality({i \in 1..Len(node.children) : is_clickable(heap, node.children[i])})

\* Mutant: only the node itself is looked at.
is_clickable_itself(heap, node) == is_clickable(heap, node)

RECURSIVE has_any_clickable_descendant(_, _)
has_any_clickable_descendant(heap, node) ==
    \/ is_clickable(heap, node)
    \/ \E i \in 1..Len(node.children) :
          has_any_clickable_descendant(heap, node.children[i])

\* Mutant: the walk up the parents stops below the root of the Fused Tree.
RECURSIVE ClickableBelowRootFrom(_, _)
ClickableBelowRootFrom(heap, current) ==
    IF current = <<>> \/ heap[current[1]].parent = <<>> THEN FALSE
    ELSE IF /\ heap[current[1]].cls = "CombinedElementNode"
            /\ heap[current[1]].interactive_index # <<>>
         THEN TRUE
         ELSE ClickableBelowRootFrom(heap, heap[current[1]].parent)

\* the loop of _has_clickable_ancestor from current on
RECURSIVE ClickableFrom(_, _)
ClickableFrom(heap, current) ==
    IF current = <<>> THEN FALSE
    ELSE IF /\ heap[current[1]].cls = "CombinedElementNode"
            /\ heap[current[1]].interactive_index # <<>>
         THEN TRUE
         ELSE ClickableFrom(heap, heap[current[1]].parent)

has_clickable_ancestor(heap, text_node) ==
    IF heap[text_node].cls # "CombinedTextNode" THEN FALSE
    ELSE ClickableFrom(heap, heap[text_node].parent)

RECURSIVE create_simplified_tree(_, _)
RECURSIVE BuildChildren(_, _)
\* the valid simplified children of the nodes ids, in order
BuildChildren(heap, ids) ==
    IF ids = <<>> THEN <<>>
    ELSE create_simplified_tree(heap, Head(ids)) \o BuildChildren(heap, Tail(ids))

\* Step 1
create_simplified_tree(heap, node) ==
    LET n == heap[node]
    IN IF n.cls = "CombinedElementNode"
       THEN IF n.tag_name = "#document"
            THEN LET valid == BuildChildren(heap, n.children)
                 IN IF valid = <<>> THEN <<>> ELSE <<valid[1]>>
            ELSE IF has_accessibility_data(n) /\ ~n.accessibility[1].ignored
                 THEN <<SimplifiedNode(node, BuildChildren(heap, n.children), TRUE)>>
                 ELSE LET children == BuildChildren(heap, n.children)
                      IN IF children # <<>>
                         THEN <<SimplifiedNode(node, children, TRUE)>>
                         ELSE <<>>
       ELSE IF /\ n.text # <<>>
               /\ str_strip(n.text) # <<>>
               /\ Len(str_strip(n.text)) > 0
               /\ ~has_clickable_ancestor(heap, node)
            THEN <<SimplifiedNode(node, <<>>, TRUE)>>
            ELSE <<>>

RECURSIVE optimize_tree(_, _)
RECURSIVE OptimizeChildren(_, _)
OptimizeChildren(heap, children) ==
    IF children = <<>> THEN <<>>
    ELSE optimize_tree(heap, <<Head(children)>>)
         \o OptimizeChildren(heap, Tail(children))

\* Mutant: a node that is kept is returned as it is, whatever its children.
optimize_tree_keeping_parents(heap, opt) ==
    IF opt = <<>> THEN <<>>
    ELSE LET node == [opt[1] EXCEPT !.children = OptimizeChildren(heap, @)]
         IN IF is_text_node(heap, node) THEN <<node>>
            ELSE IF /\ ~has_any_clickable_descendant(heap, node)
                    /\ ~\E i \in 1..Len(node.children) :
                           is_text_node(heap, node.children[i])
            THEN <<>>
            ELSE <<node>>

\* Step 2, on <<>> or <<node>>
optimize_tree(heap, opt) ==
    IF opt = <<>> THEN <<>>
    ELSE LET node == [opt[1] EXCEPT !.children = OptimizeChildren(heap, @)]
             clickable_children_count == count_direct_clickable_children(heap, node)
             text_children_count ==
                 Cardinality({i \in 1..Len(node.children) :
                                 is_text_node(heap, node.children[i])})
         IN IF is_text_node(heap, node) THEN <<node>>
            ELSE IF /\ ~has_any_clickable_descendant(heap, node)
                    /\ ~\E i \in 1..Len(node.children) :
                           is_text_node(heap, node.children[i])
            THEN <<>>
            ELSE IF /\ ~is_clickable(heap, node)
                    /\ clickable_children_count <= 1
                    /\ text_children_count = 0
            THEN IF Len(node.children) = 1 THEN <<node.children[1]>>
                 ELSE IF Len(node.children) = 0 THEN <<>>
                 ELSE <<SimplifiedNode(node.original_node, node.children, FALSE)>>
            ELSE <<node>>

DictKeys(dict) == {dict[i][1] : i \in 1..Len(dict)}

DictValue(dict, key) == dict[CHOOSE i \in 1..Len(dict) : dict[i][1] = key][2]

\* del dict[key] for the keys given
DictDel(dict, keys) ==
    LET Kept(pair) == pair[1] \notin keys
    IN SelectSeq(dict, Kept)

\* {key: str(value).strip() for key, value in node.attributes.items()
\*  if key in include_attributes}
AllowedAttributes(attributes, include_attributes) ==
    LET Allowed(pair) == pair[1] \in SeqToSet(include_attributes)
        allowed == SelectSeq(attributes, Allowed)
    IN [i \in 1..Len(allowed) |-> <<allowed[i][1], str_strip(allowed[i][2])>>]

\* [key for key in include_attributes if key in attributes_to_include]
OrderedKeys(include_attributes, attributes_to_include) ==
    LET Present(key) == key \in DictKeys(attributes_to_include)
    IN SelectSeq(include_attributes, Present)

\* Mutant: values of any length are deduplicated.
RECURSIVE KeysToRemoveOfAnyLength(_, _, _)
KeysToRemoveOfAnyLength(attributes_to_include, keys, seen_values) ==
    IF keys = <<>> THEN {}
    ELSE LET value == DictValue(attributes_to_include, Head(keys))
         IN IF value \in seen_values
            THEN {Head(keys)} \cup KeysToRemoveOfAnyLength(attributes_to_include,
                                                           Tail(keys), seen_values)
            ELSE KeysToRemoveOfAnyLength(attributes_to_include, Tail(keys),
                                         seen_values \cup {value})

\* the keys_to_remove of the loop over ordered_keys, from keys on
RECURSIVE KeysToRemove(_, _, _)
KeysToRemove(attributes_to_include, keys, seen_values) ==
    IF keys = <<>> THEN {}
    ELSE LET value == DictValue(attributes_to_include, Head(keys))
         IN IF Len(value) > 5
            THEN IF value \in seen_values
                 THEN {Head(keys)} \cup KeysToRemove(attributes_to_include,
                                                     Tail(keys), seen_values)
                 ELSE KeysToRemove(attributes_to_include, Tail(keys),
                                   seen_values \cup {value})
            ELSE KeysToRemove(attributes_to_include, Tail(keys), seen_values)

\* Remove duplicate values
WithoutDuplicateValues(attributes_to_include, include_attributes) ==
    LET ordered_keys == OrderedKeys(include_attributes, attributes_to_include)
    IN IF Len(ordered_keys) > 1
       THEN DictDel(attributes_to_include,
                    KeysToRemove(attributes_to_include, ordered_keys, {}))
       ELSE attributes_to_include

\* if role and node.tag_name == role: attributes_to_include.pop('role', None)
WithoutRedundantRole(attributes_to_include, node) ==
    LET role == get_accessibility_role(node)
    IN IF role # <<>> /\ node.tag_name = role[1]
       THEN DictDel(attributes_to_include, {"role"})
       ELSE attributes_to_include

\* Mutant: the attribute is compared with the text and the name as written.
MatchesAsWritten(attributes_to_include, attr, text, name) ==
    LET attr_value == IF attr \in DictKeys(attributes_to_include)
                      THEN str_strip(DictValue(attributes_to_include, attr))
                      ELSE <<>>
    IN /\ attr_value # <<>>
       /\ \/ attr_value = str_strip(text)
          \/ name # <<>> /\ attr_value = str_strip(name[1])

\* the condition under which attr is deleted
MatchesTextOrName(attributes_to_include, attr, text, name) ==
    LET attr_value == IF attr \in DictKeys(attributes_to_include)
                      THEN str_lower(str_strip(DictValue(attributes_to_include, attr)))
                      ELSE <<>>
    IN /\ attr_value # <<>>
       /\ \/ attr_value = str_lower(str_strip(text))
          \/ name # <<>> /\ attr_value = str_lower(str_strip(name[1]))

attrs_to_remove_if_text_matches == <<"aria-label", "placeholder", "title">>

RECURSIVE WithoutRedundantAttrs(_, _, _, _)
WithoutRedundantAttrs(attributes_to_include, attrs, text, name) ==
    IF attrs = <<>> THEN attributes_to_include
    ELSE WithoutRedundantAttrs(
             IF MatchesTextOrName(attributes_to_include, Head(attrs), text, name)
             THEN DictDel(attributes_to_include, {Head(attrs)})
             ELSE attributes_to_include,
             Tail(attrs), text, name)

\* attributes_to_include when _build_attributes_string renders it
AttributesToInclude(node, include_attributes, text) ==
    WithoutRedundantAttrs(
        WithoutRedundantRole(
            WithoutDuplicateValues(
                AllowedAttributes(node.attributes, include_attributes),
                include_attributes),
            node),
        attrs_to_remove_if_text_matches, text, get_accessibility_name(node))

cap_text_length(text, max_length) ==
    <<"\"">> \o Truncated(text, max_length) \o <<"\"">>

build_attributes_string(node, include_attributes, text) ==
    LET attributes_to_include == AttributesToInclude(node, include_attributes, text)
    IN IF attributes_to_include # <<>>
       THEN str_join(<<" ">>,
                [i \in 1..Len(attributes_to_include) |->
                    <<attributes_to_include[i][1], "=">>
                    \o cap_text_length(attributes_to_include[i][2], 15)])
       ELSE <<>>

depth_str(depth) == [i \in 1..depth |-> "\t"]

\* Add accessibility name if different from text
NameSuffix(name, text) ==
    IF name # <<>> /\ str_strip(name[1]) # str_strip(text)
    THEN <<" ", "name", "=", "\"">> \o Truncated(name[1], 20) \o <<"\"">>
    ELSE <<>>

\* the line of a displayed element
ElementLine(heap, element, include_attributes, depth) ==
    LET node == heap[element]
        text == get_all_text_till_next_accessible_element(heap, element)
        attributes_html_str == build_attributes_string(node, include_attributes, text)
    IN depth_str(depth)
       \o (IF node.interactive_index # <<>>
           THEN (IF node.is_new THEN <<"*">> ELSE <<>>)
                \o <<"[", ToString(node.interactive_index[1]), "]">>
           ELSE <<>>)
       \o <<"<", node.tag_name>>
       \o (IF attributes_html_str # <<>> THEN <<" ">> \o attributes_html_str ELSE <<>>)
       \o NameSuffix(get_accessibility_name(node), text)
       \o (IF text # <<>> THEN <<">">> \o Truncated(str_strip(text), 100) ELSE <<>>)
       \o <<" ", "/", ">">>

RECURSIVE serialize_tree(_, _, _, _)
RECURSIVE SerializeChildren(_, _, _, _)
\* the non-empty child_text of the children, in order
SerializeChildren(heap, children, include_attributes, depth) ==
    IF children = <<>> THEN <<>>
    ELSE LET child_text == serialize_tree(heap, <<Head(children)>>,
                                          include_attributes, depth)
         IN (IF child_text # <<>> THEN <<child_text>> ELSE <<>>)
            \o SerializeChildren(heap, Tail(children), include_attributes, depth)

\* Mutant: the children of a node that is not displayed are indented too.
serialize_tree_indenting_always(heap, opt, include_attributes, depth) ==
    IF opt = <<>> THEN <<>>
    ELSE LET node == opt[1]
         IN IF is_text_node(heap, node)
            THEN LET text_content == str_strip(heap[node.original_node].text)
                 IN IF text_content # <<>>
                    THEN depth_str(depth) \o Truncated(text_content, 100)
                    ELSE <<>>
            ELSE str_join(<<"\n">>,
                     (IF node.should_display
                      THEN <<ElementLine(heap, node.original_node,
                                         include_attributes, depth)>>
                      ELSE <<>>)
                     \o SerializeChildren(heap, node.children,
                                          include_attributes, depth + 1))

\* Step 3, on <<>> or <<node>>
serialize_tree(heap, opt, include_attributes, depth) ==
    IF opt = <<>> THEN <<>>
    ELSE LET node == opt[1]
         IN IF is_text_node(heap, node)
            THEN LET text_content == str_strip(heap[node.original_node].text)
                 IN str_join(<<"\n">>,
                        (IF text_content # <<>>
                         THEN <<depth_str(depth) \o Truncated(text_content, 100)>>
                         ELSE <<>>)
                        \o SerializeChildren(heap, node.children,
                                             include_attributes, depth + 1))
            ELSE IF ~node.should_display
            THEN str_join(<<"\n">>,
                     SerializeChildren(heap, node.children, include_attributes, depth))
            ELSE str_join(<<"\n">>,
                     <<ElementLine(heap, node.original_node, include_attributes, depth)>>
                     \o SerializeChildren(heap, node.children,
                                          include_attributes, depth + 1))

\* build, optimize, serialize
serialize_accessible_elements(heap, root_node, include_attributes) ==
    LET simplified == create_simplified_tree(heap, root_node)
        optimized == optimize_tree(heap, simplified)
    IN [simplified_tree |-> simplified,
        optimized_tree |-> optimized,
        serialized |-> serialize_tree(heap, optimized, include_attributes, 0)]

(***************************************************************************)
(* The pages serialize_accessible_elements is run on: the Fused Tree is    *)
(* the response of create_combined_tree for a page of up to MaxSerNodes    *)
(* nodes, and the allow-list is one of AllowLists.  The AX node of a page  *)
(* node carries a name here.                                               *)
(***************************************************************************)
MaxSerNodes == 3   \* DOM nodes of a serialized page

SUBMIT == <<"S", "u", "b", "m", "i", "t">>
LOWER_SUBMIT == <<"s", "u", "b", "m", "i", "t">>
SEND == <<"S", "e", "n", "d">>
OK == <<"O", "K">>
PADDED_OK == <<" ", " ", "O", "K", " ", " ">>
ALPHA123 == <<"a", "l", "p", "h", "a", "1", "2", "3">>
BUTTON == <<"b", "u", "t", "t", "o", "n">>

AttributeKeys == {"data-x", "data-y", "aria-label", "placeholder", "title", "role"}

AllowLists ==
    {<<"data-x", "data-y">>,
     <<"aria-label", "title", "placeholder", "role">>}

SerProfile(parent, t) ==
    [parent |-> parent, kind |-> t.kind, ax |-> t.ax, value |-> t.value,
     attrs |-> t.attrs, name |-> t.name]

SerTemplates ==
    {[kind |-> "#document", ax |-> "none", name |-> <<>>, value |-> <<>>, attrs |-> <<>>],
     [kind |-> "div", ax |-> "none", name |-> <<>>, value |-> <<>>, attrs |-> <<>>],
     [kind |-> "div", ax |-> "plain", name |-> <<>>, value |-> <<>>,
      attrs |-> <<"data-y", OK, "data-x", OK,
                  "title", PADDED_OK, "placeholder", PADDED_OK>>],
     [kind |-> "button", ax |-> "focusable", name |-> <<SUBMIT>>, value |-> <<>>,
      attrs |-> <<"data-y", ALPHA123, "data-x", ALPHA123,
                  "title", SUBMIT, "aria-label", SUBMIT>>],
     [kind |-> "button", ax |-> "focusable", name |-> <<SEND>>, value |-> <<>>,
      attrs |-> <<"role", BUTTON, "aria-label", SUBMIT>>],
     [kind |-> "button", ax |-> "focusable", name |-> <<>>, value |-> <<>>,
      attrs |-> <<"aria-label", LOWER_SUBMIT, "placeholder", <<>>>>],
     [kind |-> "#text", ax |-> "plain", name |-> <<>>, value |-> SUBMIT, attrs |-> <<>>],
     [kind |-> "#text", ax |-> "plain", name |-> <<>>, value |-> <<" ", " ">>,
      attrs |-> <<>>]}

SerAXNodeOf(p, i) ==
    [nodeId |-> i,
     ignored |-> FALSE,
     backendDOMNodeId |-> BackendIdOf(p, i),
     role |-> IF p[i].ax = "focusable" THEN "button" ELSE "generic",
     name |-> p[i].name,
     properties |-> <<[name |-> "focusable", value |-> p[i].ax = "focusable"]>>]

RECURSIVE SerAXNodesFrom(_, _)
SerAXNodesFrom(p, i) ==
    IF i > Len(p) THEN <<>>
    ELSE (IF p[i].ax = "none" THEN <<>> ELSE <<SerAXNodeOf(p, i)>>)
         \o SerAXNodesFrom(p, i + 1)

SerAXTreeOf(p) == [nodes |-> SerAXNodesFrom(p, 1)]

\* the nodes under which the next node in document order may be put; a
\* document has one child
SerHostsFor(p, t) ==
    {h \in AncestorsOrSelf(p, Len(p)) :
        /\ p[h].kind # "#text"
        /\ p[h].kind = "#document" => IdsWhere(p, h, FALSE, 1) = <<>>}

\* A page of SerTemplates whose root has two children that are kept, one of
\* them clickable and none a text node: div > (button, div > "Submit")
SiblingsPage ==
    LET container == [kind |-> "div", ax |-> "plain", name |-> <<>>, value |-> <<>>,
                      attrs |-> <<"data-y", OK, "data-x", OK,
                                  "title", PADDED_OK, "placeholder", PADDED_OK>>]
        send == [kind |-> "button", ax |-> "focusable", name |-> <<SEND>>,
                 value |-> <<>>, attrs |-> <<"role", BUTTON, "aria-label", SUBMIT>>]
        submit == [kind |-> "#text", ax |-> "plain", name |-> <<>>, value |-> SUBMIT,
                   attrs |-> <<>>]
    IN <<SerProfile(0, container), SerProfile(1, send),
         SerProfile(1, container), SerProfile(3, submit)>>

InitSer ==
    /\ page \in {<<SerProfile(0, t)>> : t \in {t \in SerTemplates : t.kind # "#text"}}
                \cup {SiblingsPage}
    /\ dom_tree = DomTreeOf(page)
    /\ accessibility_tree = SerAXTreeOf(page)
    /\ response = <<>>
    /\ first_response = <<>>
    /\ runs = "none"
    /\ interactive_counter = [value |-> 0]
    /\ IdleWalk /\ IdleService /\ IdleDom /\ IdleSerializer

\* The page gets one more node before the trees are fused.
LoadSerNode ==
    /\ runs = "none"
    /\ Len(page) < MaxSerNodes
    /\ \E t \in SerTemplates : \E h \in SerHostsFor(page, t) :
          /\ t.kind # "#document"
          /\ page' = Append(page, SerProfile(h, t))
    /\ dom_tree' = DomTreeOf(page')
    /\ accessibility_tree' = SerAXTreeOf(page')
    /\ UNCHANGED <<response, first_response, runs, interactive_counter>>
    /\ UNCHANGED <<walk_vars, service_vars, dom_vars, serializer_vars>>

\* A caller runs serialize_accessible_elements(response.root, include)
SerializeAccessibleElements ==
    /\ response # <<>>
    /\ \E include \in AllowLists :
          LET result == serialize_accessible_elements(response[1].heap,
                                                      response[1].root, include)
          IN /\ allow_list' = include
             /\ simplified_tree' = result.simplified_tree
             /\ optimized_tree' = result.optimized_tree
             /\ serialized' = <<result.serialized>>
    /\ UNCHANGED <<fusion_vars, walk_vars, service_vars, dom_vars>>

NextSer == LoadSerNode \/ CreateCombinedTree \/ SerializeAccessibleElements

SpecSer == InitSer /\ [][NextSer]_vars

(***************************************************************************)
(* What the serializer claims speak of                                     *)
(***************************************************************************)
Serialized == serialized # <<>>

\* the nodes of a simplified tree, in pre-order
RECURSIVE SimplifiedNodesOf(_)
RECURSIVE SimplifiedNodesOver(_)
SimplifiedNodesOver(children) ==
    IF children = <<>> THEN <<>>
    ELSE SimplifiedNodesOf(<<Head(children)>>) \o SimplifiedNodesOver(Tail(children))

SimplifiedNodesOf(opt) ==
    IF opt = <<>> THEN <<>>
    ELSE <<opt[1]>> \o SimplifiedNodesOver(opt[1].children)

IsInfix(a, b) ==
    \E i \in 0..(Len(b) - Len(a)) : SubSeq(b, i + 1, i + Len(a)) = a

\* the line of element as serialize_accessible_elements wrote it, without
\* its tabs
LineOf(element) == ElementLine(response[1].heap, element, allow_list, 0)

\* the Elements that have a line in the string returned
RenderedElements ==
    {element \in 1..Len(response[1].heap) :
        /\ \E i \in 1..Len(SimplifiedNodesOf(optimized_tree)) :
              LET node == SimplifiedNodesOf(optimized_tree)[i]
              IN /\ node.original_node = element
                 /\ ~is_text_node(response[1].heap, node)
                 /\ node.should_display
        /\ IsInfix(LineOf(element), serialized[1])}

\* the attribute keys of a line, in the order they are written
KeysIn(line) ==
    LET IsKey(symbol) == symbol \in AttributeKeys
    IN SelectSeq(line, IsKey)

\* the keys in the order of the allow-list
InAllowListOrder(keys) ==
    LET Among(key) == key \in SeqToSet(keys)
    IN SelectSeq(allow_list, Among)

\* C16: in every element line of the string returned, the attribute keys
\* follow one another in the order of the allow-list (include_attributes),
\* whatever their order in the element's attribute map.
C16_AttributesInAllowListOrder ==
    Serialized =>
        \A element \in RenderedElements :
            KeysIn(LineOf(element)) = InAllowListOrder(KeysIn(LineOf(element)))

\* the allowed attributes of element as its attribute map holds them
HeldAttributes(element) ==
    LET Allowed(pair) == pair[1] \in SeqToSet(allow_list)
    IN SelectSeq(response[1].heap[element].attributes, Allowed)

\* the same, each value trimmed
TrimmedAttributes(element) ==
    [i \in 1..Len(HeldAttributes(element)) |->
        <<HeldAttributes(element)[i][1], str_strip(HeldAttributes(element)[i][2])>>]

\* the keys of dict that hold the value key holds
SameValueKeys(dict, key) ==
    {k \in DictKeys(dict) : DictValue(dict, k) = DictValue(dict, key)}

AllowListIndex(key) == CHOOSE i \in 1..Len(allow_list) : allow_list[i] = key

\* key comes first in allow-list order among keys
FirstInAllowList(key, keys) ==
    \A k \in keys : AllowListIndex(key) <= AllowListIndex(k)

\* the line of element holds key
RenderedKey(element, key) == key \in SeqToSet(KeysIn(LineOf(element)))

\* the rules other than deduplication remove key: a role attribute when the
\* role is the tag name, and aria-label, placeholder or title when its
\* trimmed value is not empty and is, case-insensitively, the derived text
\* or the accessibility name
RemovedAsRedundant(element, key) ==
    LET node == response[1].heap[element]
        value == str_lower(DictValue(TrimmedAttributes(element), key))
        text == get_all_text_till_next_accessible_element(response[1].heap, element)
    IN \/ /\ key = "role"
          /\ node.accessibility # <<>>
          /\ node.accessibility[1].role = node.tag_name
       \/ /\ key \in {"aria-label", "placeholder", "title"}
          /\ value # <<>>
          /\ \/ value = str_lower(str_strip(text))
             \/ /\ get_accessibility_name(node) # <<>>
                /\ value = str_lower(str_strip(get_accessibility_name(node)[1]))

\* C17 as stated: of the allowed attributes of a rendered element that hold
\* the same value, longer than 5 characters, the key first in allow-list
\* order is rendered and the others are not; equal values of 5 characters
\* or less are all rendered.
C17_OnlyFirstOfEqualValues ==
    Serialized =>
        \A element \in RenderedElements :
            \A key \in DictKeys(HeldAttributes(element)) :
                LET same == SameValueKeys(HeldAttributes(element), key)
                IN Cardinality(same) >= 2 =>
                      IF Len(DictValue(HeldAttributes(element), key)) > 5
                      THEN RenderedKey(element, key) <=> FirstInAllowList(key, same)
                      ELSE RenderedKey(element, key)

\* C17: of the allowed attributes of a rendered element that hold the same
\* trimmed value, longer than 5 characters, all but the key first in
\* allow-list order are dropped, and that first key is rendered unless the
\* role rule or the text rule removes it; keys holding equal trimmed values
\* of 5 characters or less are rendered unless one of these two rules
\* removes them.
C17_DuplicateValuesDropped ==
    Serialized =>
        \A element \in RenderedElements :
            \A key \in DictKeys(TrimmedAttributes(element)) :
                LET same == SameValueKeys(TrimmedAttributes(element), key)
                IN Cardinality(same) >= 2 =>
                      IF Len(DictValue(TrimmedAttributes(element), key)) > 5
                      THEN RenderedKey(element, key) <=>
                              /\ FirstInAllowList(key, same)
                              /\ ~RemovedAsRedundant(element, key)
                      ELSE RenderedKey(element, key) <=>
                              ~RemovedAsRedundant(element, key)

\* an element is rendered with data-x and without data-y, which holds the
\* same value of 8 characters; another is rendered with two keys that hold
\* the same value of 2 characters
C17_Witness ==
    /\ Serialized
    /\ \E element \in RenderedElements :
          /\ {"data-x", "data-y"} \subseteq DictKeys(TrimmedAttributes(element))
          /\ DictValue(TrimmedAttributes(element), "data-x") = ALPHA123
          /\ DictValue(TrimmedAttributes(element), "data-y") = ALPHA123
          /\ RenderedKey(element, "data-x")
          /\ ~RenderedKey(element, "data-y")
    /\ \E element \in RenderedElements :
          /\ {"data-x", "data-y"} \subseteq DictKeys(TrimmedAttributes(element))
          /\ DictValue(TrimmedAttributes(element), "data-x") = OK
          /\ DictValue(TrimmedAttributes(element), "data-y") = OK
          /\ RenderedKey(element, "data-x")
          /\ RenderedKey(element, "data-y")

\* the attribute map of element holds key with a value that is,
\* case-insensitively, the derived text or the accessibility name of element
EqualsTextOrName(element, key) ==
    LET node == response[1].heap[element]
        text == get_all_text_till_next_accessible_element(response[1].heap, element)
    IN /\ key \in DictKeys(node.attributes)
       /\ \/ str_lower(DictValue(node.attributes, key)) = str_lower(text)
          \/ /\ get_accessibility_name(node) # <<>>
             /\ str_lower(DictValue(node.attributes, key))
                   = str_lower(get_accessibility_name(node)[1])

\* element has aria-label="Submit" and the derived text "Submit"
SubmitLabelled(element) ==
    /\ "aria-label" \in DictKeys(response[1].heap[element].attributes)
    /\ DictValue(response[1].heap[element].attributes, "aria-label") = SUBMIT
    /\ get_all_text_till_next_accessible_element(response[1].heap, element) = SUBMIT

HasNameSuffix(element) == "name" \in SeqToSet(LineOf(element))

\* C18 as stated: a rendered element whose aria-label, placeholder or title
\* is, case-insensitively, its derived text or its accessibility name is
\* rendered without that attribute, and an element with aria-label="Submit"
\* and derived text "Submit" has neither an aria-label nor a name= suffix.
C18_RedundantLabelNeverRendered ==
    Serialized =>
        \A element \in RenderedElements :
            /\ \A key \in {"aria-label", "placeholder", "title"} :
                  EqualsTextOrName(element, key) => ~RenderedKey(element, key)
            /\ SubmitLabelled(element) =>
                  ~RenderedKey(element, "aria-label") /\ ~HasNameSuffix(element)

\* C18: a rendered element whose aria-label, placeholder or title is not
\* empty once trimmed and is, case-insensitively, its derived text or its
\* accessibility name is rendered without that attribute, and an element
\* with aria-label="Submit" and derived text "Submit" is rendered without
\* an aria-label, and without a name= suffix if it has no accessibility
\* name or the name "Submit".
C18_RedundantLabelDropped ==
    Serialized =>
        \A element \in RenderedElements :
            /\ \A key \in {"aria-label", "placeholder", "title"} :
                  /\ EqualsTextOrName(element, key)
                  /\ str_strip(DictValue(response[1].heap[element].attributes, key)) # <<>>
                  => ~RenderedKey(element, key)
            /\ SubmitLabelled(element) =>
                  /\ ~RenderedKey(element, "aria-label")
                  /\ get_accessibility_name(response[1].heap[element]) \in {<<>>, <<SUBMIT>>}
                        => ~HasNameSuffix(element)

\* an element with aria-label="Submit", the derived text "Submit" and the
\* accessibility name "Submit" is rendered, under an allow-list that holds
\* aria-label, with neither an aria-label nor a name= suffix
C18_Witness ==
    /\ Serialized
    /\ "aria-label" \in SeqToSet(allow_list)
    /\ \E element \in RenderedElements :
          /\ SubmitLabelled(element)
          /\ EqualsTextOrName(element, "aria-label")
          /\ get_accessibility_name(response[1].heap[element]) = <<SUBMIT>>
          /\ ~RenderedKey(element, "aria-label")
          /\ ~HasNameSuffix(element)

\* the nodes of the Fused Tree at and below node
RECURSIVE FusedSubtree(_, _)
FusedSubtree(heap, node) ==
    {node} \cup UNION {FusedSubtree(heap, heap[node].children[i]) :
                          i \in 1..Len(heap[node].children)}

FusedNodes == FusedSubtree(response[1].heap, response[1].root)

\* the nodes of the Fused Tree above node, the root included
FusedAncestors(node) ==
    {a \in FusedNodes \ {node} : node \in FusedSubtree(response[1].heap, a)}

FusedTextNodes ==
    {node \in FusedNodes : response[1].heap[node].cls = "CombinedTextNode"}

\* the Text nodes that the build pass made a Simplified node of
BuiltTextNodes ==
    {SimplifiedNodesOf(simplified_tree)[i].original_node :
        i \in {j \in 1..Len(SimplifiedNodesOf(simplified_tree)) :
                  is_text_node(response[1].heap, SimplifiedNodesOf(simplified_tree)[j])}}

HasTrimmedText(node) ==
    \E i \in 1..Len(response[1].heap[node].text) :
        response[1].heap[node].text[i] \notin Whitespace

HasInteractiveAncestor(node) ==
    \E a \in FusedAncestors(node) :
        /\ response[1].heap[a].cls = "CombinedElementNode"
        /\ response[1].heap[a].interactive_index # <<>>

\* C19: the build pass makes a Simplified node of a Text node of the Fused
\* Tree exactly when the trimmed text of the node is not empty and no node
\* above it in the Fused Tree, the root included, has an interactive index;
\* a Text node of whitespace alone is never made one.
C19_TextKeptIffNoInteractiveAncestor ==
    Serialized =>
        \A node \in FusedTextNodes :
            /\ node \in BuiltTextNodes
                  <=> HasTrimmedText(node) /\ ~HasInteractiveAncestor(node)
            /\ ~HasTrimmedText(node) => node \notin BuiltTextNodes

\* a Text node with text, below a parent without an interactive index and a
\* root with one, is not made a Simplified node
C19_Witness ==
    /\ Serialized
    /\ \E node \in FusedTextNodes :
          /\ HasTrimmedText(node)
          /\ response[1].heap[node].parent # <<>>
          /\ response[1].heap[node].parent[1] # response[1].root
          /\ response[1].heap[response[1].heap[node].parent[1]].interactive_index = <<>>
          /\ response[1].heap[response[1].root].interactive_index # <<>>
          /\ node \notin BuiltTextNodes

(***************************************************************************)
(* C21.  What a DOM node converts to, read off the inputs: <<>> or the     *)
(* nodeId of the DOM node that stands for it in the Fused Tree.            *)
(***************************************************************************)
RECURSIVE ConvertsTo(_)
RECURSIVE ConvertedOver(_)
ConvertedOver(ids) ==
    IF ids = <<>> THEN <<>> ELSE ConvertsTo(Head(ids)) \o ConvertedOver(Tail(ids))

\* the nodeIds that the children and then the shadow roots of id convert to
ConvertedChildren(id) ==
    ConvertedOver(dom_tree.nodes[id].children \o dom_tree.nodes[id].shadowRoots)

ConvertsTo(id) ==
    IF HasAttachedAX(id) THEN <<id>>
    ELSE IF Len(ConvertedChildren(id)) >= 2 THEN <<id>>
    ELSE ConvertedChildren(id)

\* the nodeIds of the children of a node of the Fused Tree, in order
FusedChildIds(r, n) ==
    [i \in 1..Len(r.heap[n].children) |-> r.heap[r.heap[n].children[i]].node_id]

\* C21: for a DOM node without attached accessibility data whose children
\* and shadow roots convert to k nodes: if k = 1 the DOM node is not in the
\* Fused Tree and the converted child stands where the node would (as the
\* root, or in the children of the node above); if k >= 2 the node is in the
\* tree once, as an Element without accessibility data and without
\* interactive index whose children are those k nodes, children before
\* shadow roots.  Every Element without accessibility data other than a
\* childless root has at least two children.
C21_SpliceOrContainer ==
    Fused =>
        LET r == response[1]
        IN /\ \A id \in DOMAIN dom_tree.nodes :
                 ~HasAttachedAX(id) =>
                    /\ Len(ConvertedChildren(id)) = 1 =>
                          /\ ~Appears(id, r)
                          /\ Appears(ConvertedChildren(id)[1], r)
                          /\ ConvertsTo(id) = ConvertedChildren(id)
                    /\ Len(ConvertedChildren(id)) >= 2 =>
                          /\ Cardinality({n \in TreeNodes(r) : r.heap[n].node_id = id}) = 1
                          /\ \A n \in TreeNodes(r) :
                                r.heap[n].node_id = id =>
                                   /\ r.heap[n].cls = "CombinedElementNode"
                                   /\ r.heap[n].accessibility = <<>>
                                   /\ r.heap[n].interactive_index = <<>>
                                   /\ FusedChildIds(r, n) = ConvertedChildren(id)
           /\ ConvertsTo(dom_tree.root) # <<>> =>
                 r.heap[r.root].node_id = ConvertsTo(dom_tree.root)[1]
           /\ \A n \in TreeNodes(r) :
                 FusedChildIds(r, n) = ConvertedChildren(r.heap[n].node_id)
           /\ \A n \in TreeNodes(r) :
                 /\ r.heap[n].cls = "CombinedElementNode"
                 /\ r.heap[n].accessibility = <<>>
                 /\ ~(n = r.root /\ r.heap[n].children = <<>>)
                 => Len(r.heap[n].children) >= 2

\* a node without accessibility data is left out for its single converted
\* child, under a container that holds a converted child and a converted
\* shadow root in that order
C21_Witness ==
    /\ Fused
    /\ \E id \in DOMAIN dom_tree.nodes :
          /\ ~HasAttachedAX(id)
          /\ Len(ConvertedChildren(id)) = 1
          /\ ~Appears(id, response[1])
    /\ \E n \in TreeNodes(response[1]) :
          LET id == response[1].heap[n].node_id
          IN /\ response[1].heap[n].accessibility = <<>>
             /\ dom_tree.nodes[id].children # <<>>
             /\ dom_tree.nodes[id].shadowRoots # <<>>
             /\ Len(ConvertedOver(dom_tree.nodes[id].children)) >= 1
             /\ Len(ConvertedOver(dom_tree.nodes[id].shadowRoots)) >= 1
             /\ Len(response[1].heap[n].children) >= 2

\* the Elements of the Fused Tree that carry an interactive index
InteractiveElements ==
    {node \in FusedNodes :
        /\ response[1].heap[node].cls = "CombinedElementNode"
        /\ response[1].heap[node].interactive_index # <<>>}

\* how often a tree holds a Simplified node of the Fused node
TimesIn(tree, node) ==
    Cardinality({i \in 1..Len(SimplifiedNodesOf(tree)) :
                    SimplifiedNodesOf(tree)[i].original_node = node})

\* the positions of the string returned at which a bracketed index starts
BracketPositions ==
    {p \in 1..Len(serialized[1]) : serialized[1][p] = "["}

\* the number a symbol writes
NumberOf(symbol) == CHOOSE i \in 0..Len(response[1].heap) : ToString(i) = symbol

\* C22: the string returned holds, for every Element of the Fused Tree with
\* an interactive index, exactly one element line, and that line carries
\* the index of the Element in brackets; there are no other bracketed
\* indices, and they increase strictly from the first to the last.  An
\* interactive node is once in the tree of the build pass and once in the
\* tree of the optimize pass.
C22_InteractiveElementsRenderedOnce ==
    Serialized =>
        /\ \A node \in InteractiveElements :
              /\ TimesIn(simplified_tree, node) = 1
              /\ TimesIn(optimized_tree, node) = 1
              /\ node \in RenderedElements
              /\ Cardinality({p \in BracketPositions :
                    /\ p + 2 <= Len(serialized[1])
                    /\ serialized[1][p + 1]
                          = ToString(response[1].heap[node].interactive_index[1])
                    /\ serialized[1][p + 2] = "]"}) = 1
        /\ Cardinality(BracketPositions) = Cardinality(InteractiveElements)
        /\ \A p, q \in BracketPositions :
              p < q => NumberOf(serialized[1][p + 1]) < NumberOf(serialized[1][q + 1])

\* two interactive Elements under a parent without an interactive index are
\* rendered
C22_Witness ==
    /\ Serialized
    /\ Cardinality(InteractiveElements) >= 2
    /\ Cardinality(BracketPositions) >= 2
    /\ \E node \in InteractiveElements :
          /\ response[1].heap[node].parent # <<>>
          /\ response[1].heap[node].parent[1] \notin InteractiveElements

\* C23: every element line of the string returned belongs to an Element
\* that carries accessibility data that is not ignored; an Element without
\* such data has no line of its own.
C23_OnlyAccessibleElementsRendered ==
    Serialized =>
        \A element \in RenderedElements :
            /\ response[1].heap[element].accessibility # <<>>
            /\ ~response[1].heap[element].accessibility[1].ignored

\* the string returned holds text as a line of its own, after its tabs
OnOwnLine(text) ==
    \E i \in 0..(Len(serialized[1]) - Len(text)) :
        /\ SubSeq(serialized[1], i + 1, i + Len(text)) = text
        /\ i = 0 \/ serialized[1][i] \in {"\n", "\t"}
        /\ i + Len(text) = Len(serialized[1]) \/ serialized[1][i + Len(text) + 1] = "\n"

\* C24: every text leaf of the tree of the build pass is in the tree of the
\* optimize pass, and its trimmed text is a line of its own in the string
\* returned.
C24_TextLeavesKept ==
    Serialized =>
        \A node \in BuiltTextNodes :
            /\ TimesIn(optimized_tree, node) = 1
            /\ OnOwnLine(str_strip(response[1].heap[node].text))

\* the Text nodes with text that the build pass leaves out below a node with
\* an interactive index
OmittedTextNodes ==
    {node \in FusedTextNodes :
        /\ HasTrimmedText(node)
        /\ HasInteractiveAncestor(node)
        /\ node \notin BuiltTextNodes}

\* the derived text of element takes the text of node in: element is above
\* node and no Element between the two has accessibility data
DerivedTextHolds(element, node) ==
    /\ element \in FusedAncestors(node)
    /\ \A a \in FusedAncestors(node) :
          element \in FusedAncestors(a) => ~has_accessibility_data(response[1].heap[a])
    /\ IsInfix(str_strip(response[1].heap[node].text),
               get_all_text_till_next_accessible_element(response[1].heap, element))

\* C25: the text of every Text node left out by the build pass below a node
\* with an interactive index is in the derived text of an Element that has a
\* line in the string returned.
C25_OmittedTextInDerivedText ==
    Serialized =>
        \A node \in OmittedTextNodes :
            \E element \in RenderedElements : DerivedTextHolds(element, node)

(***************************************************************************)
(* C26.  The nodes of the tree of the optimize pass, with their counts     *)
(* read off the Fused Tree.                                                *)
(***************************************************************************)
OptimizedNodes ==
    {SimplifiedNodesOf(optimized_tree)[i] :
        i \in 1..Len(SimplifiedNodesOf(optimized_tree))}

IsTextLeaf(node) == response[1].heap[node.original_node].cls = "CombinedTextNode"

IsInteractive(node) ==
    /\ response[1].heap[node.original_node].cls = "CombinedElementNode"
    /\ response[1].heap[node.original_node].interactive_index # <<>>

\* C of a node: its direct children that are interactive
InteractiveChildren(node) ==
    Cardinality({i \in 1..Len(node.children) : IsInteractive(node.children[i])})

\* T of a node: its direct children that are text leaves
TextLeafChildren(node) ==
    Cardinality({i \in 1..Len(node.children) : IsTextLeaf(node.children[i])})

\* an interactive node at or below node
InteractiveWithin(node) ==
    \E i \in 1..Len(SimplifiedNodesOf(<<node>>)) :
        IsInteractive(SimplifiedNodesOf(<<node>>)[i])

\* C26: in the tree of the optimize pass a displayed node that is neither a
\* text leaf nor interactive has two interactive children or a text leaf
\* child; a node that is not displayed is not interactive and has at most
\* one interactive child, no text leaf child and two children or more; no
\* node that is not interactive has at most one interactive child, no text
\* leaf child and exactly one child; and no node other than a text leaf is
\* without both an interactive node at or below it and a text leaf child.
C26_OptimizedTreeShape ==
    Serialized =>
        \A node \in OptimizedNodes :
            /\ ~IsTextLeaf(node) /\ ~IsInteractive(node) /\ node.should_display
                  => InteractiveChildren(node) >= 2 \/ TextLeafChildren(node) >= 1
            /\ ~node.should_display
                  => /\ ~IsInteractive(node)
                     /\ InteractiveChildren(node) <= 1
                     /\ TextLeafChildren(node) = 0
                     /\ Len(node.children) >= 2
            /\ ~(/\ ~IsTextLeaf(node) /\ ~IsInteractive(node)
                 /\ InteractiveChildren(node) <= 1
                 /\ TextLeafChildren(node) = 0
                 /\ Len(node.children) = 1)
            /\ ~(/\ ~IsTextLeaf(node)
                 /\ ~InteractiveWithin(node)
                 /\ TextLeafChildren(node) = 0)

\* the tree of the optimize pass has a node that is not displayed over a
\* displayed node that is not interactive and has a text leaf child
C26_Witness ==
    /\ Serialized
    /\ \E node \in OptimizedNodes :
          /\ ~node.should_display
          /\ \E i \in 1..Len(node.children) :
                /\ node.children[i].should_display
                /\ ~IsInteractive(node.children[i])
                /\ TextLeafChildren(node.children[i]) >= 1

(***************************************************************************)
(* C28.  The nodes of the tree of the optimize pass, each with the number  *)
(* of displayed nodes above it.                                            *)
(***************************************************************************)
RECURSIVE NodesBelowDisplayed(_, _)
NodesBelowDisplayed(node, displayed) ==
    {<<node, displayed>>}
    \cup UNION {NodesBelowDisplayed(node.children[i],
                                    displayed + (IF node.should_display THEN 1 ELSE 0)) :
                   i \in 1..Len(node.children)}

OptimizedNodesBelowDisplayed ==
    IF optimized_tree = <<>> THEN {} ELSE NodesBelowDisplayed(optimized_tree[1], 0)

\* what a node writes after its tabs; <<>> for a node that writes no line
LineContent(node) ==
    IF IsTextLeaf(node)
    THEN Truncated(str_strip(response[1].heap[node.original_node].text), 100)
    ELSE IF node.should_display THEN LineOf(node.original_node)
    ELSE <<>>

\* the string returned has a line that is tabs tab characters and then content
LineWithTabs(content, tabs) ==
    \E i \in 0..(Len(serialized[1]) - tabs - Len(content)) :
        /\ SubSeq(serialized[1], i + 1, i + tabs + Len(content))
              = depth_str(tabs) \o content
        /\ i = 0 \/ serialized[1][i] = "\n"
        /\ \/ i + tabs + Len(content) = Len(serialized[1])
           \/ serialized[1][i + tabs + Len(content) + 1] = "\n"

\* C28: the line of every node of the tree of the optimize pass that writes
\* one starts with as many tabs as the node has displayed nodes above it: the
\* children of a node that is not displayed are at the depth of that node,
\* the children of a displayed element one level deeper.
C28_TabsCountDisplayedAncestors ==
    Serialized =>
        \A pair \in OptimizedNodesBelowDisplayed :
            LineContent(pair[1]) # <<>> => LineWithTabs(LineContent(pair[1]), pair[2])

\* a node that is not displayed has a child with a line without tabs, and a
\* child of that child has a line with one tab
C28_Witness ==
    /\ Serialized
    /\ optimized_tree # <<>>
    /\ ~optimized_tree[1].should_display
    /\ \E i \in 1..Len(optimized_tree[1].children) :
          LET child == optimized_tree[1].children[i]
          IN /\ child.should_display
             /\ LineWithTabs(LineContent(child), 0)
             /\ \E j \in 1..Len(child.children) :
                   /\ LineContent(child.children[j]) # <<>>
                   /\ LineWithTabs(LineContent(child.children[j]), 1)

(***************************************************************************)
(* C27.  The nodes the walk reached with a childNodeCount above zero and   *)
(* no children: the entries of the table are the nodes as the walk found   *)
(* them.                                                                   *)
(***************************************************************************)
ReachedUnloaded ==
    {all_nodes[k][1] : k \in {j \in 1..Len(all_nodes) :
                                 /\ all_nodes[j][2].children = <<>>
                                 /\ all_nodes[j][2].childNodeCount > 0}}

\* the children the browser hands out for the node once they are requested
MaterializedChildren(id) ==
    {i \in 1..Len(dom_browser) :
        dom_browser[i].parent = id /\ dom_browser[i].link = "children"}

RefetchedAfterRequest(id) ==
    \E k \in 1..Len(cdp_requests) :
        /\ cdp_requests[k] = Request("DOM.requestChildNodes", id)
        /\ \E later \in (k + 1)..Len(cdp_requests) :
              cdp_requests[later] = Request("DOM.getDocument", 0)

\* C27: when get_entire_dom_tree returns after a walk without failed
\* requests, DOM.requestChildNodes and then DOM.getDocument were issued for
\* every node the walk reached with a childNodeCount above zero and no
\* children, in the main document, in a shadow root or in a frame document,
\* and the children of the node are in the table.
C27_UnloadedChildrenInTable ==
    (dom_returned # <<>> /\ dom_failures = <<>>) =>
        \A id \in ReachedUnloaded :
            /\ RefetchedAfterRequest(id)
            /\ MaterializedChildren(id) # {}
            /\ MaterializedChildren(id) \subseteq TableNodeIds

(***************************************************************************)
(* C29.  The event loop runs the coroutine of the call whenever it can go  *)
(* on, and the transport answers or fails every request: a step of the     *)
(* call that stays possible is taken.                                      *)
(***************************************************************************)
\* the documents of the calls that are followed to their end: a document
\* alone, NestedFramesDocument, ShadowRootsDocument, a div without its
\* child, which is without its own child, and a frame document without its
\* child
EndDocuments ==
    {<<DomProfile(0, "root")>>, NestedFramesDocument, ShadowRootsDocument,
     <<DomProfile(0, "root"), DomProfile(1, "children"), DomProfile(2, "unloaded"),
       DomProfile(3, "unloaded")>>,
     <<DomProfile(0, "root"), DomProfile(1, "children"),
       DomProfile(2, "contentDocument"), DomProfile(3, "unloaded")>>}

InitEnd ==
    /\ IdleFusion
    /\ ax_browser \in ServiceAXTrees
    /\ ax_stack = <<>>
    /\ ax_pending = <<>>
    /\ ax_requests = <<>>
    /\ ax_examined = {}
    /\ ax_failures = {}
    /\ ax_returned = <<>>
    /\ InitService("get_combined_tree")
    /\ dom_browser \in EndDocuments
    /\ dom_stack = <<>>
    /\ doc_response = <<>>
    /\ all_nodes = <<>>
    /\ frame_documents = <<>>
    /\ frame_index = 0
    /\ dom_failures = <<>>
    /\ dom_returned = <<>>
    /\ IdleSerializer

\* the steps of a call of get_combined_tree
NextEnd ==
    \/ CallService
    \/ GetCurrentPage
    \/ SendRequest
    \/ ReceiveResponse
    \/ FailRequest
    \/ GetAccessibilityTree
    \/ CallGetInterestingNodes
    \/ SendGetChildAXNodes
    \/ ReceiveChildAXNodes
    \/ FailGetChildAXNodes
    \/ ExamineNode
    \/ ReturnNodes
    \/ CallGetEntireDomTree
    \/ GetEntireDomTree
    \/ CollectNode
    \/ SendRequestChildNodes
    \/ ReceiveRequestChildNodes
    \/ FailRequestChildNodes
    \/ CheckFrameOwner
    \/ CallCollectAllNodes
    \/ SendGetDocument
    \/ ReceiveGetDocument
    \/ FailGetDocument
    \/ ReturnCollectAllNodes
    \/ WalkFrameDocument
    \/ ReturnDocResponse
    \/ ReturnCombinedTree

SpecEnd == InitEnd /\ [][NextEnd]_vars /\ WF_vars(NextEnd)

\* the shadow roots of the hosts the walk reached
ReachedShadowRoots ==
    {i \in 1..Len(dom_browser) :
        dom_browser[i].link = "shadowRoots" /\ dom_browser[i].parent \in TableNodeIds}

\* DOM.requestChildNodes is issued for a node once at most as a shadow root
\* of its host and once at most as a node without its children;
\* getChildAXNodes once at most for an AX node; and the requests of a call
\* are no more than the nodes allow
RequestsBounded ==
    /\ \A id \in 1..Len(dom_browser) :
          CountOf(cdp_requests, Request("DOM.requestChildNodes", id))
              <= (IF id \in ReachedShadowRoots THEN 1 ELSE 0)
                 + (IF id \in ReachedUnloaded THEN 1 ELSE 0)
    /\ \A id \in 1..Len(ax_browser) : CountOf(ax_requests, id) <= 1
    /\ CountOf(cdp_requests, Request("DOM.getDocument", 0))
          <= 1 + Cardinality(ReachedUnloaded)
    /\ Len(cdp_requests) <= 2 * Len(Script("none")) + 3 * Len(dom_browser)
    /\ Len(ax_requests) <= Len(ax_browser)

AccessibilityTreeCalled == svc.fn = "get_accessibility_tree" /\ svc.phase = "start"

EntireDomTreeCalled == svc.fn = "get_entire_dom_tree" /\ svc.phase = "start"

====
